---- MODULE Spec2Model ----
(***************************************************************************)
(* Asset resolution engine of nori-registry (scripts/github-package.js):   *)
(* filename classification, priority-ordered candidate selection gated by  *)
(* a three-tier checksum resolver, the version gate, and the catalog merge, *)
(* and the index scripts scripts/node-package.js and scripts/zig-package.js.*)
(* Strings are TLA+ strings; the JavaScript string methods the code uses    *)
(* are defined below character by character.                                *)
(***************************************************************************)
EXTENDS Integers, Sequences, FiniteSets, TLC

VARIABLES
    allowDownloadChecksum,  \* config.allowDownloadChecksum
    existing,               \* existing.versions, as read by readExistingYAML
    releases,               \* what fetchReleases returned
    relIdx,                 \* position of main's loop over releases
    pc,                     \* where the run is
    version,                \* processRelease: version
    platformOrder,          \* processRelease: keys of platformAssets, in insertion order
    platformAssets,         \* processRelease: platform -> candidates
    platIdx,                \* position of the loop over Object.entries(platformAssets)
    candidates,             \* the sorted candidates of the current platform
    candIdx,                \* position of the loop over candidates
    selected,               \* processRelease: selected
    platforms,              \* versionEntry.platforms
    newVersions,            \* main: newVersions
    mergedVersions,         \* main: mergedVersions
    disk,                   \* versions in packages/<name>.yaml
    writes,                 \* number of writeYAML calls
    log,                    \* calls made by getChecksum, in order
    nodeReleases,           \* node-package.js main: releases (dist/index.json)
    nodePc,                 \* node-package.js: where the run is
    nodePos,                \* node-package.js main: position of the loop over releases
    nodeNewVersions,        \* node-package.js main: newVersions
    nodeYaml,               \* versions in packages/node.yaml
    zigData,                \* zig-package.js main: Object.entries(data) (download/index.json)
    zigPc,                  \* zig-package.js: where the run is
    allVersions,            \* zig-package.js main: allVersions
    zigPos,                 \* zig-package.js main: position of the loop over allVersions
    zigNewVersions,         \* zig-package.js main: newVersions
    zigYaml,                \* versions in packages/zig.yaml
    responses,              \* what the servers answer to the requests of one calculateChecksum
    currentUrl,             \* calculateChecksum, makeRequest: currentUrl
    redirectCount,          \* calculateChecksum, makeRequest: redirectCount
    requests,               \* number of requests calculateChecksum has issued
    dlPc,                   \* calculateChecksum: where the computation is
    dlResult,               \* getChecksum: what tier 3 returned
    argv,                   \* process.argv.slice(2), as the options it gives
    configFile,             \* content of the file named by --config
    config,                 \* config
    cfgPc                   \* parseArgs: where it is

nodeVars == <<nodeReleases, nodePc, nodePos, nodeNewVersions, nodeYaml>>

zigVars == <<zigData, zigPc, allVersions, zigPos, zigNewVersions, zigYaml>>

dlVars == <<responses, currentUrl, redirectCount, requests, dlPc, dlResult>>

cfgVars == <<argv, configFile, config, cfgPc>>

vars == <<dlVars, cfgVars, allowDownloadChecksum, existing, releases, relIdx, pc, version,
          platformOrder, platformAssets, platIdx, candidates, candIdx, selected,
          platforms, newVersions, mergedVersions, disk, writes, log, nodeVars, zigVars>>

-----------------------------------------------------------------------------
(* JavaScript values and string methods *)

\* null / undefined
Null == "<null>"

\* a rejected promise (network error, timeout, non-2xx status)
Rejected == "<rejected>"

\* if (x): neither null nor the empty string
Truthy(x) == x # Null /\ x # ""

Min(a, b) == IF a < b THEN a ELSE b

Max(a, b) == IF a > b THEN a ELSE b

\* s.charAt(i - 1): the empty string outside the string
CharAt(s, i) == IF 1 <= i /\ i <= Len(s) THEN SubSeq(s, i, i) ELSE ""

\* s.substring(n), n counted from 0
Substring(s, n) == IF n >= Len(s) THEN "" ELSE SubSeq(s, n + 1, Len(s))

startsWith(s, t) == Len(t) <= Len(s) /\ SubSeq(s, 1, Len(t)) = t

endsWith(s, t) == Len(t) <= Len(s) /\ SubSeq(s, Len(s) - Len(t) + 1, Len(s)) = t

includes(s, t) == \E i \in 1..(Len(s) - Len(t) + 1) : SubSeq(s, i, i + Len(t) - 1) = t

\* 1-based position of the first occurrence of the one-character string c at or after from; 0 if none
IndexFrom(s, c, from) ==
    LET hits == {i \in from..Len(s) : CharAt(s, i) = c}
    IN IF hits = {} THEN 0 ELSE CHOOSE i \in hits : \A j \in hits : i <= j

IndexOf(s, c) == IndexFrom(s, c, 1)

UpperLetters == "ABCDEFGHIJKLMNOPQRSTUVWXYZ"

LowerLetters == "abcdefghijklmnopqrstuvwxyz"

Digits == "0123456789"

CharsOf(s) == {CharAt(s, i) : i \in 1..Len(s)}

DigitSet == CharsOf(Digits)

LowerSet == CharsOf(LowerLetters)

LowerOf == [c \in CharsOf(UpperLetters) |-> CharAt(LowerLetters, IndexOf(UpperLetters, c))]

IsDigit(c) == c \in DigitSet

IsLowerLetter(c) == c \in LowerSet

LowerChar(c) == IF c \in DOMAIN LowerOf THEN LowerOf[c] ELSE c

RECURSIVE toLowerCase(_)
toLowerCase(s) == IF s = "" THEN "" ELSE LowerChar(CharAt(s, 1)) \o toLowerCase(Substring(s, 1))

IsSpace(c) == c = " " \/ c = "\t" \/ c = "\r" \/ c = "\n"

RECURSIVE trimStart(_)
trimStart(s) == IF s # "" /\ IsSpace(CharAt(s, 1)) THEN trimStart(Substring(s, 1)) ELSE s

RECURSIVE trimEnd(_)
trimEnd(s) ==
    IF s # "" /\ IsSpace(CharAt(s, Len(s)))
    THEN trimEnd(IF Len(s) = 1 THEN "" ELSE SubSeq(s, 1, Len(s) - 1))
    ELSE s

trim(s) == trimEnd(trimStart(s))

\* s.split(c) for a one-character separator: always at least one part
RECURSIVE split(_, _)
split(s, c) ==
    LET i == IndexOf(s, c)
    IN IF i = 0 THEN <<s>>
       ELSE <<IF i = 1 THEN "" ELSE SubSeq(s, 1, i - 1)>> \o split(Substring(s, i), c)

\* number of leading decimal digits of s from position i on
RECURSIVE DigitRun(_, _)
DigitRun(s, i) == IF i <= Len(s) /\ IsDigit(CharAt(s, i)) THEN 1 + DigitRun(s, i + 1) ELSE 0

RECURSIVE DigitsValue(_)
DigitsValue(s) ==
    IF s = "" THEN 0
    ELSE 10 * DigitsValue(IF Len(s) = 1 THEN "" ELSE SubSeq(s, 1, Len(s) - 1))
         + (IndexOf(Digits, CharAt(s, Len(s))) - 1)

\* parseInt(p, 10) || 0 : the leading digits, 0 when there are none (NaN)
parseIntOr0(p) ==
    LET t == trimStart(p)
        u == IF t # "" /\ CharAt(t, 1) = "+" THEN Substring(t, 1) ELSE t
    IN IF DigitRun(u, 1) = 0 THEN 0 ELSE DigitsValue(SubSeq(u, 1, DigitRun(u, 1)))

\* String.prototype.localeCompare on the file names of a release: punctuation
\* sorts before digits, digits before letters, letters without regard to case
\* first and lower case before upper case on a tie.
CollationOrder == "_-.0123456789abcdefghijklmnopqrstuvwxyz"

Primary(c) == IndexOf(CollationOrder, LowerChar(c))

RECURSIVE ComparePrimary(_, _)
ComparePrimary(a, b) ==
    IF a = "" /\ b = "" THEN 0
    ELSE IF a = "" THEN -1
    ELSE IF b = "" THEN 1
    ELSE IF Primary(CharAt(a, 1)) # Primary(CharAt(b, 1))
         THEN (IF Primary(CharAt(a, 1)) < Primary(CharAt(b, 1)) THEN -1 ELSE 1)
    ELSE ComparePrimary(Substring(a, 1), Substring(b, 1))

RECURSIVE CompareCase(_, _)
CompareCase(a, b) ==
    IF a = "" \/ b = "" THEN 0
    ELSE IF CharAt(a, 1) = CharAt(b, 1) THEN CompareCase(Substring(a, 1), Substring(b, 1))
    ELSE IF IsLowerLetter(CharAt(a, 1)) THEN -1 ELSE 1

localeCompare(a, b) == IF ComparePrimary(a, b) # 0 THEN ComparePrimary(a, b) ELSE CompareCase(a, b)

-----------------------------------------------------------------------------
(* Filename classifier *)

\* lower.match(/win32[^a-z]/)
MatchesWin32NonLetter(lower) ==
    \E i \in 1..(Len(lower) - 5) :
        SubSeq(lower, i, i + 4) = "win32" /\ ~IsLowerLetter(CharAt(lower, i + 5))

\* the Windows markers looked for before the macOS markers
matchOSWindowsFirst(lower) ==
    IF \/ includes(lower, "windows") \/ includes(lower, "win32") \/ includes(lower, "win64")
       \/ includes(lower, "win")
    THEN "windows"
    ELSE IF \/ includes(lower, "darwin") \/ includes(lower, "macos") \/ includes(lower, "mac-os")
            \/ includes(lower, "osx") \/ includes(lower, "os-x") \/ includes(lower, "mac")
    THEN "macos"
    ELSE IF includes(lower, "linux") THEN "linux"
    ELSE Null

matchOS(lower) ==
    IF \/ includes(lower, "darwin") \/ includes(lower, "macos") \/ includes(lower, "mac-os")
       \/ includes(lower, "osx") \/ includes(lower, "os-x")
       \/ (includes(lower, "mac") /\ ~includes(lower, "macintosh"))
    THEN "macos"
    ELSE IF \/ includes(lower, "windows") \/ includes(lower, "win32") \/ includes(lower, "win64")
            \/ (includes(lower, "win") /\ ~includes(lower, "darwin"))
    THEN "windows"
    ELSE IF \/ includes(lower, "linux") \/ includes(lower, "gnu-linux")
            \/ includes(lower, "linux-gnu") \/ includes(lower, "linux-musl")
    THEN "linux"
    ELSE Null

\* only the spelling arm64 known as 64-bit ARM
matchArchArm64Only(lower, os) ==
    IF includes(lower, "arm64") THEN "arm64"
    ELSE IF includes(lower, "64") THEN "amd64"
    ELSE IF includes(lower, "32") \/ includes(lower, "x86") \/ includes(lower, "386") THEN "x86"
    ELSE IF os # Null THEN "amd64"
    ELSE Null

matchArch(lower, os) ==
    IF includes(lower, "arm64") \/ includes(lower, "aarch64") \/ includes(lower, "armv8")
    THEN "arm64"
    ELSE IF \/ includes(lower, "amd64") \/ includes(lower, "x86_64") \/ includes(lower, "x86-64")
            \/ (includes(lower, "x64") /\ ~includes(lower, "x86"))
            \/ includes(lower, "intel64") \/ includes(lower, "em64t")
    THEN "amd64"
    ELSE IF \/ includes(lower, "i386") \/ includes(lower, "i686") \/ includes(lower, "ia32")
            \/ (includes(lower, "x86") /\ ~includes(lower, "x86_64") /\ ~includes(lower, "x86-64"))
            \/ includes(lower, "386") \/ includes(lower, "686")
            \/ (includes(lower, "32") /\ ~includes(lower, "64") /\ ~includes(lower, "32bit"))
    THEN "x86"
    ELSE IF includes(lower, "64") /\ ~includes(lower, "arm") /\ ~includes(lower, "aarch")
    THEN "amd64"
    ELSE IF /\ (includes(lower, "32") \/ includes(lower, "32bit") \/ includes(lower, "32-bit"))
            /\ ~includes(lower, "64") /\ os = "windows"
    THEN (IF \/ MatchesWin32NonLetter(lower) \/ includes(lower, "windows-32") \/ includes(lower, "win-32")
          THEN "x86" ELSE Null)
    ELSE IF os # Null
    THEN "amd64"
    ELSE Null

\* [os, arch], or Null where the code returns null
matchPlatform(filename) ==
    LET lower == toLowerCase(filename)
        os == matchOS(lower)
        arch == matchArch(lower, os)
    IN IF os = Null \/ arch = Null THEN Null ELSE os \o "-" \o arch

\* const [os] = platform.split('-')
PlatformOS(platform) == split(platform, "-")[1]

detectArchiveTypeMsi(filename) ==
    LET lower == toLowerCase(filename)
    IN IF endsWith(lower, ".tar.gz") \/ endsWith(lower, ".tgz") THEN "tar.gz"
       ELSE IF endsWith(lower, ".tar.xz") THEN "tar.xz"
       ELSE IF endsWith(lower, ".zip") THEN "zip"
       ELSE IF endsWith(lower, ".tar") THEN "tar"
       ELSE IF endsWith(lower, ".msi") THEN "msi"
       ELSE Null

detectArchiveType(filename) ==
    LET lower == toLowerCase(filename)
    IN IF endsWith(lower, ".tar.gz") \/ endsWith(lower, ".tgz") THEN "tar.gz"
       ELSE IF endsWith(lower, ".tar.xz") THEN "tar.xz"
       ELSE IF endsWith(lower, ".zip") THEN "zip"
       ELSE IF endsWith(lower, ".tar") THEN "tar"
       ELSE Null

Sentinel == 999

getArchiveTypePriority(archiveType, os) ==
    IF os = "windows"
    THEN (IF archiveType = "zip" THEN 1 ELSE Sentinel)
    ELSE IF archiveType = "tar.gz" THEN 1
    ELSE IF archiveType = "tar.xz" THEN 2
    ELSE IF archiveType = "tar" THEN 3
    ELSE IF archiveType = "zip" THEN 4
    ELSE Sentinel

-----------------------------------------------------------------------------
(* Checksum resolver *)

\* An asset of a release is [name, digest, body, sha]: body is what a GET of its
\* browser_download_url resolves to (or Rejected), sha what calculateChecksum of
\* that url resolves to (or Rejected).
Url(tag, name) == "https://github.com/o/r/releases/download/" \o tag \o "/" \o name

HexDigits == "0123456789abcdef"

LowerHexSet == CharsOf(HexDigits)

\* [a-f0-9] with the i flag
HexSet == LowerHexSet \cup CharsOf("ABCDEF")

IsHexChar(c) == c \in HexSet

IsLowerHexChar(c) == c \in LowerHexSet

HashLen == 64

\* line.match(/^([a-f0-9]{64})/i)
MatchHexPrefix(line) ==
    IF Len(line) >= HashLen /\ \A i \in 1..HashLen : IsHexChar(CharAt(line, i))
    THEN SubSeq(line, 1, HashLen)
    ELSE Null

\* line.trim().match(/^([a-f0-9]{64})$/i)
MatchHexWhole(line) ==
    LET t == trim(line)
    IN IF Len(t) = HashLen /\ \A i \in 1..HashLen : IsHexChar(CharAt(t, i)) THEN t ELSE Null

getChecksumFromAPI(asset) ==
    IF Truthy(asset.digest) /\ startsWith(asset.digest, "sha256:")
    THEN Substring(asset.digest, 7)
    ELSE Null

\* assetName.replace(/\.(tar\.gz|zip|tar\.xz)$/, suffix)
ReplaceArchiveExt(assetName, suffix) ==
    IF endsWith(assetName, ".tar.gz") THEN SubSeq(assetName, 1, Len(assetName) - 7) \o suffix
    ELSE IF endsWith(assetName, ".zip") THEN SubSeq(assetName, 1, Len(assetName) - 4) \o suffix
    ELSE IF endsWith(assetName, ".tar.xz") THEN SubSeq(assetName, 1, Len(assetName) - 7) \o suffix
    ELSE assetName

checksumPatterns(asset) ==
    LET assetName == toLowerCase(asset.name)
    IN << assetName \o ".sha256",
          assetName \o ".sha256sum",
          ReplaceArchiveExt(assetName, ".sha256"),
          ReplaceArchiveExt(assetName, ".sha256sum"),
          "checksums.txt",
          "checksums.sha256",
          "SHA256SUMS" >>

\* releaseAssets.find((a) => a.name.toLowerCase() === pattern): its index, 0 if none
FindAsset(releaseAssets, pattern) ==
    IF \E i \in 1..Len(releaseAssets) : toLowerCase(releaseAssets[i].name) = pattern
    THEN CHOOSE i \in 1..Len(releaseAssets) :
            /\ toLowerCase(releaseAssets[i].name) = pattern
            /\ \A j \in 1..(i - 1) : toLowerCase(releaseAssets[j].name) # pattern
    ELSE 0

\* the loop over the lines of one checksum file: the digest returned, or Null
RECURSIVE ScanLines(_, _, _)
ScanLines(lines, k, asset) ==
    IF k > Len(lines) THEN Null
    ELSE IF includes(lines[k], asset.name) /\ MatchHexPrefix(lines[k]) # Null
    THEN MatchHexPrefix(lines[k])
    ELSE IF MatchHexWhole(lines[k]) # Null /\ Len(lines) = 1
    THEN MatchHexWhole(lines[k])
    ELSE ScanLines(lines, k + 1, asset)

\* the loop over checksumPatterns from pattern k on: [checksum, fetched]
RECURSIVE ScanPatterns(_, _, _, _)
ScanPatterns(patterns, k, asset, releaseAssets) ==
    IF k > Len(patterns) THEN [checksum |-> Null, fetched |-> <<>>]
    ELSE LET i == FindAsset(releaseAssets, patterns[k])
             rest == ScanPatterns(patterns, k + 1, asset, releaseAssets)
         IN IF i = 0 THEN rest
            ELSE LET content == releaseAssets[i].body
                     found == IF content = Rejected THEN Null
                              ELSE ScanLines(split(content, "\n"), 1, asset)
                 IN IF found # Null
                    THEN [checksum |-> found, fetched |-> <<releaseAssets[i].name>>]
                    ELSE [checksum |-> rest.checksum,
                          fetched |-> <<releaseAssets[i].name>> \o rest.fetched]

\* [checksum, fetched]: the digest (or Null) and the checksum files requested, in order
getChecksumFromFiles(asset, releaseAssets) ==
    ScanPatterns(checksumPatterns(asset), 1, asset, releaseAssets)

\* asset.sha of a download whose response handler throws: makeRequest is called
\* from the response callback with a Location that new URL() does not accept
\* (a relative reference), outside the promise executor and outside any try
Uncaught == "<uncaught>"

\* what getChecksum's try/catch makes of calculateChecksum(url)
calculateChecksum(asset) == IF asset.sha \in {Rejected, Uncaught} THEN Null ELSE asset.sha

\* the exception of the response callback is no rejection of the promise:
\* nothing catches it
ThrowsUncaught(asset) == asset.sha = Uncaught

Call(op, asset, arg) == [op |-> op, asset |-> asset.name, arg |-> arg]

FetchCalls(asset, fetched) == [i \in 1..Len(fetched) |-> Call("fetch", asset, fetched[i])]

\* tier 3 regardless of the flag
getChecksumNoOptIn(asset, releaseAssets, allow) ==
    LET apiChecksum == getChecksumFromAPI(asset)
        files == getChecksumFromFiles(asset, releaseAssets)
        t1 == <<Call("api", asset, apiChecksum)>>
        t2 == FetchCalls(asset, files.fetched) \o <<Call("files", asset, files.checksum)>>
    IN IF Truthy(apiChecksum) THEN [checksum |-> apiChecksum, calls |-> t1, threw |-> FALSE]
       ELSE IF Truthy(files.checksum) THEN [checksum |-> files.checksum, calls |-> t1 \o t2, threw |-> FALSE]
       ELSE [checksum |-> calculateChecksum(asset),
             calls |-> t1 \o t2 \o <<Call("download", asset, calculateChecksum(asset))>>,
             threw |-> ThrowsUncaught(asset)]

\* tier 2 tried although tier 1 has answered
getChecksumNoShortCircuit(asset, releaseAssets, allow) ==
    LET apiChecksum == getChecksumFromAPI(asset)
        files == getChecksumFromFiles(asset, releaseAssets)
        t1 == <<Call("api", asset, apiChecksum)>>
        t2 == FetchCalls(asset, files.fetched) \o <<Call("files", asset, files.checksum)>>
    IN IF Truthy(apiChecksum) THEN [checksum |-> apiChecksum, calls |-> t1 \o t2, threw |-> FALSE]
       ELSE IF Truthy(files.checksum) THEN [checksum |-> files.checksum, calls |-> t1 \o t2, threw |-> FALSE]
       ELSE IF allow
       THEN [checksum |-> calculateChecksum(asset),
             calls |-> t1 \o t2 \o <<Call("download", asset, calculateChecksum(asset))>>,
             threw |-> ThrowsUncaught(asset)]
       ELSE [checksum |-> Null, calls |-> t1 \o t2, threw |-> FALSE]

\* the rejection of calculateChecksum not caught
getChecksumNoCatch(asset, releaseAssets, allow) ==
    LET apiChecksum == getChecksumFromAPI(asset)
        files == getChecksumFromFiles(asset, releaseAssets)
        t1 == <<Call("api", asset, apiChecksum)>>
        t2 == FetchCalls(asset, files.fetched) \o <<Call("files", asset, files.checksum)>>
    IN IF Truthy(apiChecksum) THEN [checksum |-> apiChecksum, calls |-> t1, threw |-> FALSE]
       ELSE IF Truthy(files.checksum)
       THEN [checksum |-> files.checksum, calls |-> t1 \o t2, threw |-> FALSE]
       ELSE IF allow
       THEN [checksum |-> calculateChecksum(asset),
             calls |-> t1 \o t2 \o <<Call("download", asset, calculateChecksum(asset))>>,
             threw |-> asset.sha \in {Rejected, Uncaught}]
       ELSE [checksum |-> Null, calls |-> t1 \o t2, threw |-> FALSE]

\* [checksum, calls, threw]: the value returned, the calls made, in order, and
\* whether an exception left the call uncaught
getChecksum(asset, releaseAssets, allow) ==
    LET apiChecksum == getChecksumFromAPI(asset)
        files == getChecksumFromFiles(asset, releaseAssets)
        t1 == <<Call("api", asset, apiChecksum)>>
        t2 == FetchCalls(asset, files.fetched) \o <<Call("files", asset, files.checksum)>>
    IN IF Truthy(apiChecksum) THEN [checksum |-> apiChecksum, calls |-> t1, threw |-> FALSE]
       ELSE IF Truthy(files.checksum) THEN [checksum |-> files.checksum, calls |-> t1 \o t2, threw |-> FALSE]
       ELSE IF allow
       THEN [checksum |-> calculateChecksum(asset),
             calls |-> t1 \o t2 \o <<Call("download", asset, calculateChecksum(asset))>>,
             threw |-> ThrowsUncaught(asset)]
       ELSE [checksum |-> Null, calls |-> t1 \o t2, threw |-> FALSE]

-----------------------------------------------------------------------------
(* Version gate *)

extractVersion(tag) ==
    IF tag # "" /\ (CharAt(tag, 1) = "v" \/ CharAt(tag, 1) = "V") THEN Substring(tag, 1) ELSE tag

\* /^\d+\.\d+\.\d+/.test(version)
StartsWithTriple(v) ==
    LET a == DigitRun(v, 1)
        b == DigitRun(v, a + 2)
        c == DigitRun(v, a + b + 3)
    IN /\ a > 0 /\ CharAt(v, a + 1) = "."
       /\ b > 0 /\ CharAt(v, a + b + 2) = "."
       /\ c > 0

\* the version gate without the dev-marker rule
isValidVersionNoDevRule(v) ==
    StartsWithTriple(v) /\ (includes(v, "-") => includes(split(split(v, "-")[2], "+")[1], "."))

isValidVersion(v) ==
    IF ~StartsWithTriple(v) THEN FALSE
    ELSE IF includes(v, "-") /\ ~includes(split(split(v, "-")[2], "+")[1], ".") THEN FALSE
    ELSE IF includes(v, "-dev") \/ includes(v, "+dev") THEN FALSE
    ELSE TRUE

\* parts padded to three: parts.map((p) => parseInt(p, 10) || 0)
versionKey(v) ==
    LET parts == split(split(v, "-")[1], ".")
        padded == IF Len(parts) < 3 THEN parts \o [i \in 1..(3 - Len(parts)) |-> "0"] ELSE parts
    IN [i \in 1..Len(padded) |-> parseIntOr0(padded[i])]

\* keyA[i] || 0
KeyAt(key, i) == IF i <= Len(key) THEN key[i] ELSE 0

\* the sort comparator of mergeVersions: valB - valA at the first difference, else 0
RECURSIVE CompareKeys(_, _, _)
CompareKeys(keyA, keyB, i) ==
    IF i > Max(Len(keyA), Len(keyB)) THEN 0
    ELSE IF KeyAt(keyB, i) # KeyAt(keyA, i) THEN KeyAt(keyB, i) - KeyAt(keyA, i)
    ELSE CompareKeys(keyA, keyB, i + 1)

compareVersions(a, b) == CompareKeys(versionKey(a.version), versionKey(b.version), 1)

-----------------------------------------------------------------------------
(* Catalog merger *)

\* every set adds a value, also for a key that is present
MapSetAppend(m, entry) == m \o <<entry>>

\* versionMap.set(entry.version, entry): a present key keeps its position
MapSet(m, entry) ==
    IF \E i \in 1..Len(m) : m[i].version = entry.version
    THEN [i \in 1..Len(m) |-> IF m[i].version = entry.version THEN entry ELSE m[i]]
    ELSE m \o <<entry>>

\* for (const version of list) if (version.version) versionMap.set(...)
RECURSIVE SetAll(_, _, _)
SetAll(m, list, k) ==
    IF k > Len(list) THEN m
    ELSE SetAll(IF Truthy(list[k].version) THEN MapSet(m, list[k]) ELSE m, list, k + 1)

\* Array.prototype.sort is stable: each element goes after the last element
\* that does not sort after it
RECURSIVE InsertVersion(_, _)
InsertVersion(sorted, x) ==
    IF sorted = <<>> THEN <<x>>
    ELSE IF compareVersions(sorted[Len(sorted)], x) > 0
    THEN InsertVersion(SubSeq(sorted, 1, Len(sorted) - 1), x) \o <<sorted[Len(sorted)]>>
    ELSE sorted \o <<x>>

RECURSIVE sortVersions(_)
sortVersions(s) ==
    IF s = <<>> THEN <<>> ELSE InsertVersion(sortVersions(SubSeq(s, 1, Len(s) - 1)), s[Len(s)])

\* the old entry kept when a version is in both lists
mergeVersionsOldWins(old, new) == sortVersions(SetAll(SetAll(<<>>, new, 1), old, 1))

mergeVersions(old, new) == sortVersions(SetAll(SetAll(<<>>, old, 1), new, 1))

-----------------------------------------------------------------------------
(* Candidate selector: processRelease *)

\* config.bins.map(...)
Bins == <<"bin/a">>

Candidate(asset, archiveType, platform) ==
    [asset |-> asset, archiveType |-> archiveType,
     priority |-> getArchiveTypePriority(archiveType, PlatformOS(platform))]

\* step 1, from asset k on: acc is [order, byPlatform]
RECURSIVE CollectFrom(_, _, _)
CollectFrom(assets, k, acc) ==
    IF k > Len(assets) THEN acc
    ELSE LET platform == matchPlatform(assets[k].name)
             archiveType == detectArchiveType(assets[k].name)
         IN IF platform = Null \/ archiveType = Null THEN CollectFrom(assets, k + 1, acc)
            ELSE IF platform \in DOMAIN acc.byPlatform
            THEN CollectFrom(assets, k + 1,
                    [acc EXCEPT !.byPlatform[platform] = @ \o <<Candidate(assets[k], archiveType, platform)>>])
            ELSE CollectFrom(assets, k + 1,
                    [order |-> acc.order \o <<platform>>,
                     byPlatform |-> (platform :> <<Candidate(assets[k], archiveType, platform)>>) @@ acc.byPlatform])

NoPlatforms == [p \in {} |-> <<>>]

collectPlatformAssets(assets) == CollectFrom(assets, 1, [order |-> <<>>, byPlatform |-> NoPlatforms])

compareCandidatesByName(a, b) == localeCompare(a.asset.name, b.asset.name)

compareCandidates(a, b) ==
    IF a.priority # b.priority THEN a.priority - b.priority
    ELSE localeCompare(a.asset.name, b.asset.name)

RECURSIVE InsertCandidate(_, _)
InsertCandidate(sorted, x) ==
    IF sorted = <<>> THEN <<x>>
    ELSE IF compareCandidates(sorted[Len(sorted)], x) > 0
    THEN InsertCandidate(SubSeq(sorted, 1, Len(sorted) - 1), x) \o <<sorted[Len(sorted)]>>
    ELSE sorted \o <<x>>

RECURSIVE sortCandidates(_)
sortCandidates(s) ==
    IF s = <<>> THEN <<>> ELSE InsertCandidate(sortCandidates(SubSeq(s, 1, Len(s) - 1)), s[Len(s)])

\* selected = { type, url, checksum: `sha256:${checksum}` }
Artifact(candidate, tag, checksum) ==
    [type |-> candidate.archiveType, url |-> Url(tag, candidate.asset.name),
     checksum |-> "sha256:" \o checksum]

neverBreaks(checksum) == FALSE

\* if (checksum) { ...; break }
breaksLoop(checksum) == Truthy(checksum)

NoArtifact == [type |-> Null, url |-> Null, checksum |-> Null]

NoEntries == [p \in {} |-> NoArtifact]

\* the assignment without its test
platformsAfterUnguarded(map, platform, sel) == (platform :> sel) @@ map

\* if (selected) versionEntry.platforms[platform] = selected
platformsAfter(map, platform, sel) ==
    IF sel # NoArtifact THEN (platform :> sel) @@ map ELSE map

-----------------------------------------------------------------------------
(* Inputs *)

RECURSIVE Repeat(_, _)
Repeat(s, n) == IF n = 0 THEN "" ELSE s \o Repeat(s, n - 1)

HexA == Repeat("a1", 32)

HexB == Repeat("b2", 32)

HexC == Repeat("c3", 32)

HexUpper == Repeat("D4", 32)

Asset(name, digest, body, sha) == [name |-> name, digest |-> digest, body |-> body, sha |-> sha]

\* The assets a release is drawn from: archives of three platforms with and
\* without an API digest, an installer, and checksum files.
AssetPool ==
    { Asset("a-linux.tar.gz", Null, "binary", HexC),
      Asset("a-linux.tar.xz", "sha256:" \o HexA, "binary", HexC),
      Asset("a-linux.tar.gz.sha256", Null, HexB \o "  a-linux.tar.gz\n", Rejected),
      Asset("a-win64.zip", "sha256:" \o HexA, "binary", HexC),
      Asset("a-win64.msi", "sha256:" \o HexA, "binary", HexC),
      Asset("a-win64.tar.gz", "sha256:" \o HexB, "binary", HexC),
      Asset("a-windows-x64.zip", "sha256:", "binary", Rejected),
      Asset("a-darwin-arm64.zip", "sha256:" \o HexUpper, "binary", HexC),
      Asset("checksums.txt", Null, HexUpper \o "  a-windows-x64.zip\n", Rejected) }

MaxAssets == 2

\* sequences of at most n distinct assets of the pool
RECURSIVE AssetSeqs(_)
AssetSeqs(n) ==
    IF n = 0 THEN {<<>>}
    ELSE LET shorter == AssetSeqs(n - 1)
             longest == {s \in shorter : Len(s) = n - 1}
         IN shorter \cup
            { Append(p[1], p[2]) :
                p \in {q \in longest \X AssetPool : \A i \in 1..Len(q[1]) : q[1][i] # q[2]} }

Release(tag, assets) == [tag_name |-> tag, assets |-> assets]

\* an entry of the prior catalog
OldEntry(v) ==
    [version |-> v, bins |-> Bins,
     platforms |-> ("linux-amd64" :>
        [type |-> "tar.gz", url |-> Url("v" \o v, "old-linux.tar.gz"), checksum |-> "sha256:" \o HexC])]

\* releases of a run over several releases: a rejected tag, a version already
\* in the catalog, a release with one resolvable platform, one with none, and
\* one with two platforms and a checksum file that lists neither
SmallReleases ==
    { Release("1.25rc3", <<Asset("a-win64.zip", "sha256:" \o HexA, "binary", HexC)>>),
      Release("v3.2.0", <<Asset("a-linux.tar.gz", Null, "binary", HexC),
                          Asset("checksums.txt", Null, HexUpper \o "  a-windows-x64.zip\n", Rejected),
                          Asset("a-darwin-arm64.zip", "sha256:" \o HexUpper, "binary", HexC)>>),
      Release("v1.0.0", <<Asset("a-win64.zip", "sha256:" \o HexA, "binary", HexC)>>),
      Release("v3.0.0", <<Asset("a-win64.zip", "sha256:" \o HexA, "binary", HexC)>>),
      Release("v3.1.0", <<Asset("a-windows-x64.zip", "sha256:", "binary", Rejected)>>) }

File(versions) == [exists |-> TRUE, readable |-> TRUE, versions |-> versions]

NoFile == [exists |-> FALSE, readable |-> FALSE, versions |-> <<>>]

\* a file that readFileSync or yaml.load fails on
UnreadableFile == [exists |-> TRUE, readable |-> FALSE, versions |-> <<>>]

\* existing.versions || []
readExistingYAML(file) == IF file.exists /\ file.readable THEN file.versions ELSE <<>>

Idle ==
    /\ version = Null
    /\ platformOrder = <<>>
    /\ platformAssets = NoPlatforms
    /\ platIdx = 0
    /\ candidates = <<>>
    /\ candIdx = 0
    /\ selected = NoArtifact
    /\ platforms = NoEntries

\* node-package.js is not run
NodeIdle ==
    /\ nodeReleases = <<>>
    /\ nodePc = "done"
    /\ nodePos = 1
    /\ nodeNewVersions = <<>>
    /\ nodeYaml = <<>>

\* zig-package.js is not run
ZigIdle ==
    /\ zigData = <<>>
    /\ zigPc = "done"
    /\ allVersions = <<>>
    /\ zigPos = 1
    /\ zigNewVersions = <<>>
    /\ zigYaml = <<>>

\* no download is computed apart from the run
DlIdle ==
    /\ responses = <<>>
    /\ currentUrl = Null
    /\ redirectCount = 0
    /\ requests = 0
    /\ dlPc = "returned"
    /\ dlResult = Null

\* the options are parsed already
CfgIdle ==
    /\ argv = <<>>
    /\ configFile = Null
    /\ config = <<>>
    /\ cfgPc = "parsed"

\* one release with any assets of the pool, in any order
InitOneRelease ==
    /\ allowDownloadChecksum \in BOOLEAN
    /\ existing = <<OldEntry("1.0.0")>>
    /\ disk = File(existing)
    /\ releases \in {<<Release("v2.0.0", assets)>> : assets \in AssetSeqs(MaxAssets)}

\* two releases, with a prior catalog file, an empty, an unreadable and a missing one
InitTwoReleases ==
    /\ allowDownloadChecksum \in BOOLEAN
    /\ disk \in {File(<<OldEntry("1.0.0")>>), File(<<>>), UnreadableFile, NoFile}
    /\ existing = readExistingYAML(disk)
    /\ releases \in {<<r1, r2>> : r1 \in SmallReleases, r2 \in SmallReleases}

Init ==
    /\ InitOneRelease \/ InitTwoReleases
    /\ NodeIdle /\ ZigIdle /\ DlIdle /\ CfgIdle
    /\ relIdx = 1
    /\ pc = "main"
    /\ Idle
    /\ newVersions = <<>>
    /\ mergedVersions = <<>>
    /\ writes = 0
    /\ log = <<>>

-----------------------------------------------------------------------------
(* The run: main and processRelease *)

release == releases[relIdx]

\* new Set(existing.versions.map((v) => v.version))
\* a set of existing versions that has() nothing
noExistingVersions == {}

existingVersions == {existing[i].version : i \in 1..Len(existing)}

BackToIdle ==
    /\ version' = Null
    /\ platformOrder' = <<>>
    /\ platformAssets' = NoPlatforms
    /\ platIdx' = 0
    /\ candidates' = <<>>
    /\ candIdx' = 0
    /\ selected' = NoArtifact
    /\ platforms' = NoEntries

\* processRelease returns null before looking at any asset
ProcessReleaseSkip ==
    /\ pc = "main"
    /\ relIdx <= Len(releases)
    /\ \/ ~isValidVersion(extractVersion(release.tag_name))
       \/ extractVersion(release.tag_name) \in existingVersions
    /\ relIdx' = relIdx + 1
    /\ UNCHANGED <<nodeVars, zigVars, dlVars, cfgVars, allowDownloadChecksum, existing, releases, pc, version, platformOrder,
                   platformAssets, platIdx, candidates, candIdx, selected, platforms,
                   newVersions, mergedVersions, disk, writes, log>>

\* processRelease, step 1: the assets grouped by platform
ProcessReleaseCollect ==
    /\ pc = "main"
    /\ relIdx <= Len(releases)
    /\ isValidVersion(extractVersion(release.tag_name))
    /\ extractVersion(release.tag_name) \notin existingVersions
    /\ version' = extractVersion(release.tag_name)
    /\ LET collected == collectPlatformAssets(release.assets)
       IN /\ platformOrder' = collected.order
          /\ platformAssets' = collected.byPlatform
    /\ platIdx' = 1
    /\ platforms' = NoEntries
    /\ pc' = "platform"
    /\ UNCHANGED <<nodeVars, zigVars, dlVars, cfgVars, allowDownloadChecksum, existing, releases, relIdx, candidates, candIdx,
                   selected, newVersions, mergedVersions, disk, writes, log>>

\* processRelease, step 2: the candidates of the next platform, sorted
SortCandidates ==
    /\ pc = "platform"
    /\ platIdx <= Len(platformOrder)
    /\ candidates' = sortCandidates(platformAssets[platformOrder[platIdx]])
    /\ candIdx' = 1
    /\ selected' = NoArtifact
    /\ pc' = "candidate"
    /\ UNCHANGED <<nodeVars, zigVars, dlVars, cfgVars, allowDownloadChecksum, existing, releases, relIdx, version, platformOrder,
                   platformAssets, platIdx, platforms, newVersions, mergedVersions, disk,
                   writes, log>>

LogEntry(call) ==
    [rel |-> relIdx, platform |-> platformOrder[platIdx], op |-> call.op,
     asset |-> call.asset, arg |-> call.arg]

\* processRelease, step 2: getChecksum of the next candidate, and the end of
\* the platform's loop after a checksum or after the last candidate; an
\* uncaught exception ends the process (exit code 1)
TryCandidate ==
    /\ pc = "candidate"
    /\ LET candidate == candidates[candIdx]
           got == getChecksum(candidate.asset, release.assets, allowDownloadChecksum)
           sel == IF Truthy(got.checksum)
                  THEN Artifact(candidate, release.tag_name, got.checksum)
                  ELSE selected
       IN /\ log' = log \o [i \in 1..Len(got.calls) |-> LogEntry(got.calls[i])]
          /\ IF got.threw
             THEN /\ pc' = "aborted"
                  /\ UNCHANGED <<selected, platforms, platIdx, candIdx>>
             ELSE /\ selected' = sel
                  /\ IF breaksLoop(got.checksum) \/ candIdx = Len(candidates)
                     THEN /\ platforms' = platformsAfter(platforms, platformOrder[platIdx], sel)
                          /\ platIdx' = platIdx + 1
                          /\ pc' = "platform"
                          /\ UNCHANGED candIdx
                     ELSE /\ candIdx' = candIdx + 1
                          /\ UNCHANGED <<platforms, platIdx, pc>>
    /\ UNCHANGED <<nodeVars, zigVars, dlVars, cfgVars, allowDownloadChecksum, existing, releases, relIdx, version, platformOrder,
                   platformAssets, candidates, newVersions, mergedVersions, disk, writes>>

VersionEntry == [version |-> version, bins |-> Bins, platforms |-> platforms]

\* processRelease returns, and main pushes the entry if there is one
ReturnVersionEntry ==
    /\ pc = "platform"
    /\ platIdx > Len(platformOrder)
    /\ newVersions' = IF DOMAIN platforms # {} THEN Append(newVersions, VersionEntry) ELSE newVersions
    /\ relIdx' = relIdx + 1
    /\ pc' = "main"
    /\ BackToIdle
    /\ UNCHANGED <<nodeVars, zigVars, dlVars, cfgVars, allowDownloadChecksum, existing, releases, mergedVersions, disk, writes, log>>

\* a main that merges and writes without the test of newVersions.length
MergeAndWriteAlways ==
    /\ pc = "main"
    /\ relIdx > Len(releases)
    /\ mergedVersions' = mergeVersions(existing, newVersions)
    /\ disk' = File(mergeVersions(existing, newVersions))
    /\ writes' = writes + 1
    /\ pc' = "done"
    /\ UNCHANGED <<nodeVars, zigVars, dlVars, cfgVars, allowDownloadChecksum, existing, releases, relIdx, version, platformOrder,
                   platformAssets, platIdx, candidates, candIdx, selected, platforms,
                   newVersions, log>>

\* a main that merges and writes when the last release is still to be processed
MergeAndWriteBeforeLoopEnd ==
    /\ pc = "main"
    /\ relIdx >= Len(releases)
    /\ IF Len(newVersions) > 0
       THEN /\ mergedVersions' = mergeVersions(existing, newVersions)
            /\ disk' = File(mergeVersions(existing, newVersions))
            /\ writes' = writes + 1
       ELSE UNCHANGED <<mergedVersions, disk, writes>>
    /\ pc' = "done"
    /\ UNCHANGED <<nodeVars, zigVars, dlVars, cfgVars, allowDownloadChecksum, existing, releases, relIdx, version, platformOrder,
                   platformAssets, platIdx, candidates, candIdx, selected, platforms,
                   newVersions, log>>

\* main after the loop: merge and write, or nothing to add
MergeAndWrite ==
    /\ pc = "main"
    /\ relIdx > Len(releases)
    /\ IF Len(newVersions) > 0
       THEN /\ mergedVersions' = mergeVersions(existing, newVersions)
            /\ disk' = File(mergeVersions(existing, newVersions))
            /\ writes' = writes + 1
       ELSE UNCHANGED <<mergedVersions, disk, writes>>
    /\ pc' = "done"
    /\ UNCHANGED <<nodeVars, zigVars, dlVars, cfgVars, allowDownloadChecksum, existing, releases, relIdx, version, platformOrder,
                   platformAssets, platIdx, candidates, candIdx, selected, platforms,
                   newVersions, log>>

Next ==
    \/ ProcessReleaseSkip
    \/ ProcessReleaseCollect
    \/ SortCandidates
    \/ TryCandidate
    \/ ReturnVersionEntry
    \/ MergeAndWrite

Spec == Init /\ [][Next]_vars

-----------------------------------------------------------------------------
(* mergeVersions on any two lists *)

\* an entry a run has made
NewEntry(v) ==
    [version |-> v, bins |-> Bins,
     platforms |-> ("windows-amd64" :>
        [type |-> "zip", url |-> Url("v" \o v, "a-win64.zip"), checksum |-> "sha256:" \o HexA])]

MaxVersions == 2

RECURSIVE SeqsUpTo(_, _)
SeqsUpTo(S, n) ==
    IF n = 0 THEN {<<>>}
    ELSE LET shorter == SeqsUpTo(S, n - 1)
         IN shorter \cup {Append(p[1], p[2]) : p \in {q \in shorter : Len(q) = n - 1} \X S}

\* versions of a catalog file: the yaml may hold an entry without a version
ExistingVersionPool == {"1.0.0", "1.0.0-rc.1", "1.9.0", "1.10.0", ""}

NewVersionPool == {"1.0.0", "1.0.0-rc.1", "1.10.0", "2.0.0"}

InitMerge ==
    /\ NodeIdle /\ ZigIdle /\ DlIdle /\ CfgIdle
    /\ allowDownloadChecksum = FALSE
    /\ existing \in SeqsUpTo({OldEntry(v) : v \in ExistingVersionPool}, MaxVersions)
    /\ newVersions \in SeqsUpTo({NewEntry(v) : v \in NewVersionPool}, MaxVersions)
    /\ disk = File(existing)
    /\ releases = <<>>
    /\ relIdx = 1
    /\ pc = "merge"
    /\ Idle
    /\ mergedVersions = <<>>
    /\ writes = 0
    /\ log = <<>>

\* const mergedVersions = mergeVersions(existing, newVersions)
MergeVersionsCall ==
    /\ pc = "merge"
    /\ mergedVersions' = mergeVersions(existing, newVersions)
    /\ pc' = "merged"
    /\ UNCHANGED <<nodeVars, zigVars, dlVars, cfgVars, allowDownloadChecksum, existing, releases, relIdx, version, platformOrder,
                   platformAssets, platIdx, candidates, candIdx, selected, platforms,
                   newVersions, disk, writes, log>>

SpecMerge == InitMerge /\ [][MergeVersionsCall]_vars

-----------------------------------------------------------------------------
(* mergeVersions applied twice, and to a catalog and its own entries *)

InitRemerge ==
    /\ NodeIdle /\ ZigIdle /\ DlIdle /\ CfgIdle
    /\ allowDownloadChecksum = FALSE
    /\ existing \in SeqsUpTo({OldEntry(v) : v \in ExistingVersionPool}, MaxVersions)
    /\ newVersions \in {existing} \cup SeqsUpTo({NewEntry(v) : v \in NewVersionPool}, MaxVersions)
    /\ disk = File(existing)
    /\ releases = <<>>
    /\ relIdx = 1
    /\ pc = "merge"
    /\ Idle
    /\ mergedVersions = <<>>
    /\ writes = 0
    /\ log = <<>>

\* mergeVersions({versions: mergedVersions}, newVersions): the result of the
\* first merge is the catalog of the second, the new entries are the same
MergeVersionsAgain ==
    /\ pc = "merged"
    /\ existing' = mergedVersions
    /\ mergedVersions' = mergeVersions(mergedVersions, newVersions)
    /\ pc' = "remerged"
    /\ UNCHANGED <<nodeVars, zigVars, dlVars, cfgVars, allowDownloadChecksum, releases, relIdx, version, platformOrder,
                   platformAssets, platIdx, candidates, candIdx, selected, platforms,
                   newVersions, disk, writes, log>>

NextRemerge ==
    \/ MergeVersionsCall
    \/ MergeVersionsAgain

SpecRemerge == InitRemerge /\ [][NextRemerge]_vars

-----------------------------------------------------------------------------
(* scripts/node-package.js *)

\* s.replace(/^v/, '')
stripV(s) == IF CharAt(s, 1) = "v" THEN Substring(s, 1) ELSE s

NoMatch == [matched |-> FALSE, hash |-> "", filename |-> ""]

\* line.match(/^([a-f0-9]{64})\s+(.+)$/i): hash and filename
MatchChecksumLine(line) ==
    LET rest == Substring(line, HashLen)
        name == trimStart(rest)
        hash == SubSeq(line, 1, HashLen)
    IN IF ~(Len(line) > HashLen /\ \A i \in 1..HashLen : IsHexChar(CharAt(line, i))) THEN NoMatch
       ELSE IF ~IsSpace(CharAt(rest, 1)) THEN NoMatch
       ELSE IF name # "" THEN [matched |-> TRUE, hash |-> hash, filename |-> name]
       ELSE IF Len(rest) >= 2
       THEN [matched |-> TRUE, hash |-> hash, filename |-> CharAt(rest, Len(rest))]
       ELSE NoMatch

\* parseChecksums(checksumContent)[filename]: the hash of the last line that
\* names the file, or Null
RECURSIVE ChecksumIn(_, _, _)
ChecksumIn(lines, k, filename) ==
    IF k = 0 THEN Null
    ELSE LET m == MatchChecksumLine(lines[k])
         IN IF m.matched /\ m.filename = filename THEN m.hash
            ELSE ChecksumIn(lines, k - 1, filename)

parseChecksums(checksumContent, filename) ==
    LET lines == split(checksumContent, "\n") IN ChecksumIn(lines, Len(lines), filename)

\* the platformMap of main
NodePlatformMap ==
    [t \in {"linux-x64", "linux-arm64", "osx-arm64-tar", "osx-x64-tar",
            "win-x64-zip", "win-x86-zip", "win-arm64-zip"} |->
        CASE t = "linux-x64" -> "linux-amd64"
          [] t = "linux-arm64" -> "linux-arm64"
          [] t = "osx-arm64-tar" -> "macos-arm64"
          [] t = "osx-x64-tar" -> "macos-amd64"
          [] t = "win-x64-zip" -> "windows-amd64"
          [] t = "win-x86-zip" -> "windows-x86"
          [] t = "win-arm64-zip" -> "windows-arm64"]

getFilenameForFileType(ver, fileType) ==
    LET base == "node-v" \o stripV(ver)
    IN CASE fileType = "linux-x64" -> base \o "-linux-x64.tar.gz"
         [] fileType = "linux-arm64" -> base \o "-linux-arm64.tar.gz"
         [] fileType = "osx-arm64-tar" -> base \o "-darwin-arm64.tar.gz"
         [] fileType = "osx-x64-tar" -> base \o "-darwin-x64.tar.gz"
         [] fileType = "win-x64-zip" -> base \o "-win-x64.zip"
         [] fileType = "win-x86-zip" -> base \o "-win-x86.zip"
         [] fileType = "win-arm64-zip" -> base \o "-win-arm64.zip"
         [] OTHER -> Null

detectArchiveTypeNode(filename) ==
    LET lower == toLowerCase(filename)
    IN IF endsWith(lower, ".tar.gz") \/ endsWith(lower, ".tgz") THEN "tar.gz"
       ELSE IF endsWith(lower, ".zip") THEN "zip"
       ELSE IF endsWith(lower, ".tar.xz") THEN "tar.xz"
       ELSE Null

isValidVersionNode(ver) ==
    LET cleanVersion == extractVersion(ver)
    IN IF ~StartsWithTriple(cleanVersion) THEN FALSE
       ELSE IF includes(cleanVersion, "-")
               /\ ~includes(split(split(cleanVersion, "-")[2], "+")[1], ".") THEN FALSE
       ELSE IF includes(cleanVersion, "-dev") \/ includes(cleanVersion, "+dev") THEN FALSE
       ELSE TRUE

\* the loop over release.files
RECURSIVE NodePlatforms(_, _, _)
NodePlatforms(rel, k, acc) ==
    IF k > Len(rel.files) THEN acc
    ELSE LET fileType == rel.files[k]
             filename == getFilenameForFileType(rel.version, fileType)
             checksum == parseChecksums(rel.shasums, filename)
         IN IF fileType \notin DOMAIN NodePlatformMap THEN NodePlatforms(rel, k + 1, acc)
            ELSE IF NodePlatformMap[fileType] \in DOMAIN acc THEN NodePlatforms(rel, k + 1, acc)
            ELSE IF ~Truthy(checksum) THEN NodePlatforms(rel, k + 1, acc)
            ELSE IF detectArchiveTypeNode(filename) = Null THEN NodePlatforms(rel, k + 1, acc)
            ELSE NodePlatforms(rel, k + 1,
                    (NodePlatformMap[fileType] :>
                        [type |-> detectArchiveTypeNode(filename),
                         url |-> "https://nodejs.org/dist/" \o rel.version \o "/" \o filename,
                         checksum |-> "sha256:" \o checksum]) @@ acc)

NodeVersionEntry(rel) ==
    [version |-> extractVersion(rel.version), bins |-> <<"bin/node", "bin/npm", "bin/npx">>,
     platforms |-> NodePlatforms(rel, 1, NoEntries)]

\* one turn of main's loop over releases
NodeProcessRelease ==
    /\ nodePc = "loop"
    /\ nodePos <= Len(nodeReleases)
    /\ LET rel == nodeReleases[nodePos]
           entry == NodeVersionEntry(rel)
       IN nodeNewVersions' =
            IF ~isValidVersionNode(rel.version) THEN nodeNewVersions
            ELSE IF entry.version \in {nodeYaml[i].version : i \in 1..Len(nodeYaml)} THEN nodeNewVersions
            ELSE IF rel.shasums = Rejected THEN nodeNewVersions
            ELSE IF DOMAIN entry.platforms # {} THEN Append(nodeNewVersions, entry)
            ELSE nodeNewVersions
    /\ nodePos' = nodePos + 1
    /\ UNCHANGED <<nodeReleases, nodePc, nodeYaml, zigVars, dlVars, cfgVars, allowDownloadChecksum, existing,
                   releases, relIdx, pc, version, platformOrder, platformAssets, platIdx,
                   candidates, candIdx, selected, platforms, newVersions, mergedVersions,
                   disk, writes, log>>

\* main after the loop: [...existing.versions, ...newVersions].sort(...), written.
\* versionKey strips a leading v, which no version of either list has.
NodeMergeAndWrite ==
    /\ nodePc = "loop"
    /\ nodePos > Len(nodeReleases)
    /\ nodeYaml' = IF Len(nodeNewVersions) > 0 THEN sortVersions(nodeYaml \o nodeNewVersions)
                   ELSE nodeYaml
    /\ nodePc' = "done"
    /\ UNCHANGED <<nodeReleases, nodePos, nodeNewVersions, zigVars, dlVars, cfgVars, allowDownloadChecksum,
                   existing, releases, relIdx, pc, version, platformOrder, platformAssets,
                   platIdx, candidates, candIdx, selected, platforms, newVersions,
                   mergedVersions, disk, writes, log>>

-----------------------------------------------------------------------------
(* scripts/zig-package.js *)

mapPlatformZig(platformKey) ==
    LET lower == toLowerCase(platformKey)
        amd == includes(lower, "x86_64") \/ includes(lower, "amd64")
        arm == includes(lower, "aarch64") \/ includes(lower, "arm64")
        mac == includes(lower, "macos") \/ includes(lower, "darwin")
    IN IF platformKey \in {"x86_64-linux", "x86_64-linux-gnu"} THEN "linux-amd64"
       ELSE IF platformKey \in {"aarch64-linux", "arm64-linux"} THEN "linux-arm64"
       ELSE IF platformKey \in {"x86_64-macos", "x86_64-darwin"} THEN "macos-amd64"
       ELSE IF platformKey \in {"aarch64-macos", "arm64-macos", "aarch64-darwin"} THEN "macos-arm64"
       ELSE IF platformKey \in {"x86_64-windows", "x86_64-win32"} THEN "windows-amd64"
       ELSE IF platformKey \in {"x86-windows", "i386-windows", "x86-win32"} THEN "windows-x86"
       ELSE IF platformKey \in {"aarch64-windows", "arm64-windows"} THEN "windows-arm64"
       ELSE IF includes(lower, "linux") /\ amd THEN "linux-amd64"
       ELSE IF includes(lower, "linux") /\ arm THEN "linux-arm64"
       ELSE IF mac /\ amd THEN "macos-amd64"
       ELSE IF mac /\ arm THEN "macos-arm64"
       ELSE IF includes(lower, "windows") /\ amd THEN "windows-amd64"
       ELSE IF includes(lower, "windows") /\ (includes(lower, "x86") \/ includes(lower, "i386"))
               /\ ~includes(lower, "x86_64") THEN "windows-x86"
       ELSE IF includes(lower, "windows") /\ arm THEN "windows-arm64"
       ELSE Null

detectArchiveTypeZig(url) ==
    LET lower == toLowerCase(url)
    IN IF endsWith(lower, ".tar.xz") THEN "tar.xz"
       ELSE IF endsWith(lower, ".tar.gz") THEN "tar.gz"
       ELSE IF endsWith(lower, ".zip") THEN "zip"
       ELSE IF endsWith(lower, ".tar") THEN "tar"
       ELSE Null

\* versionStr.replace(/^v/, '').split('-')[0]
extractVersionZig(versionStr) == split(stripV(versionStr), "-")[1]

\* the first loop of main: the entries of data that become allVersions
RECURSIVE ZigCollectFrom(_, _)
ZigCollectFrom(data, k) ==
    IF k > Len(data) THEN <<>>
    ELSE LET key == data[k].key
             versionData == data[k].value
             rest == ZigCollectFrom(data, k + 1)
         IN IF ~versionData.object THEN rest
            ELSE IF key = "master" /\ Truthy(versionData.version)
            THEN <<[version |-> extractVersionZig(versionData.version), platforms |-> versionData]>> \o rest
            ELSE IF StartsWithTriple(key)
            THEN <<[version |-> extractVersionZig(key), platforms |-> versionData]>> \o rest
            ELSE rest

\* the loop over Object.entries(versionData.platforms)
RECURSIVE ZigPlatforms(_, _, _)
ZigPlatforms(entries, k, acc) ==
    IF k > Len(entries) THEN acc
    ELSE LET platformData == entries[k]
             platform == mapPlatformZig(platformData.key)
             archiveType == detectArchiveTypeZig(platformData.tarball)
         IN IF ~Truthy(platformData.tarball) THEN ZigPlatforms(entries, k + 1, acc)
            ELSE IF platform = Null \/ archiveType = Null THEN ZigPlatforms(entries, k + 1, acc)
            ELSE IF platform \in DOMAIN acc THEN ZigPlatforms(entries, k + 1, acc)
            ELSE IF Truthy(platformData.shasum)
            THEN ZigPlatforms(entries, k + 1,
                    (platform :> [type |-> archiveType, url |-> platformData.tarball,
                                  checksum |-> "sha256:" \o platformData.shasum]) @@ acc)
            ELSE ZigPlatforms(entries, k + 1, acc)

ZigVersionEntry(versionData) ==
    [version |-> versionData.version, bins |-> <<"zig">>,
     platforms |-> ZigPlatforms(versionData.platforms.entries, 1, NoEntries)]

\* main: allVersions built from the index
ZigCollect ==
    /\ zigPc = "collect"
    /\ allVersions' = ZigCollectFrom(zigData, 1)
    /\ zigPos' = 1
    /\ zigPc' = "loop"
    /\ UNCHANGED <<zigData, zigNewVersions, zigYaml, nodeVars, dlVars, cfgVars, allowDownloadChecksum, existing,
                   releases, relIdx, pc, version, platformOrder, platformAssets, platIdx,
                   candidates, candIdx, selected, platforms, newVersions, mergedVersions,
                   disk, writes, log>>

\* one turn of main's loop over allVersions
ZigProcessVersion ==
    /\ zigPc = "loop"
    /\ zigPos <= Len(allVersions)
    /\ LET entry == ZigVersionEntry(allVersions[zigPos])
       IN zigNewVersions' =
            IF entry.version \in {zigYaml[i].version : i \in 1..Len(zigYaml)} THEN zigNewVersions
            ELSE IF DOMAIN entry.platforms # {} THEN Append(zigNewVersions, entry)
            ELSE zigNewVersions
    /\ zigPos' = zigPos + 1
    /\ UNCHANGED <<zigData, zigPc, allVersions, zigYaml, nodeVars, dlVars, cfgVars, allowDownloadChecksum,
                   existing, releases, relIdx, pc, version, platformOrder, platformAssets,
                   platIdx, candidates, candIdx, selected, platforms, newVersions,
                   mergedVersions, disk, writes, log>>

\* main after the loop: [...existing.versions, ...newVersions].sort(...), written.
\* versionKey strips a leading v, which no version of either list has.
ZigMergeAndWrite ==
    /\ zigPc = "loop"
    /\ zigPos > Len(allVersions)
    /\ zigYaml' = IF Len(zigNewVersions) > 0 THEN sortVersions(zigYaml \o zigNewVersions)
                  ELSE zigYaml
    /\ zigPc' = "done"
    /\ UNCHANGED <<zigData, allVersions, zigPos, zigNewVersions, nodeVars, dlVars, cfgVars,
                   allowDownloadChecksum, existing, releases, relIdx, pc, version,
                   platformOrder, platformAssets, platIdx, candidates, candIdx, selected,
                   platforms, newVersions, mergedVersions, disk, writes, log>>

\* a value of download/index.json: its version field, if any, and its other
\* entries, of which those with a tarball are platforms
ZigValue(ver, entries) == [object |-> TRUE, version |-> ver, entries |-> entries]

ZigTarball(ver, plat) == "https://ziglang.org/builds/zig-" \o plat \o "-" \o ver \o ".tar.xz"

ZigPlatform(ver, plat, shasum) == [key |-> plat, tarball |-> ZigTarball(ver, plat), shasum |-> shasum]

ZigField(key) == [key |-> key, tarball |-> Null, shasum |-> Null]

DevVersion == "0.16.0-dev.1265+bdbfc7de3"

\* entries of the index: the master snapshot, with and without a version
\* field, releases, a release without checksum, a development build under its
\* own key, and a key that is no version
ZigIndexPool ==
    { [key |-> "master",
       value |-> ZigValue(DevVersion, <<ZigField("date"), ZigPlatform(DevVersion, "x86_64-linux", HexA),
                                        ZigPlatform(DevVersion, "aarch64-macos", HexB)>>)],
      [key |-> "master", value |-> ZigValue(Null, <<ZigPlatform("master", "x86_64-linux", HexA)>>)],
      [key |-> "0.15.2",
       value |-> ZigValue(Null, <<ZigField("date"), ZigPlatform("0.15.2", "x86_64-linux", HexA),
                                  ZigPlatform("0.15.2", "x86_64-windows", HexB)>>)],
      [key |-> "0.16.0", value |-> ZigValue(Null, <<ZigPlatform("0.16.0", "x86_64-linux", HexC)>>)],
      [key |-> "0.13.0", value |-> ZigValue(Null, <<ZigPlatform("0.13.0", "x86_64-linux", Null)>>)],
      [key |-> "0.14.0-dev.5+abc",
       value |-> ZigValue(Null, <<ZigPlatform("0.14.0-dev.5+abc", "riscv64-linux", HexA),
                                  ZigPlatform("0.14.0-dev.5+abc", "arm64-linux", HexA)>>)],
      [key |-> "nightly", value |-> [object |-> FALSE, version |-> Null, entries |-> <<>>]] }

MaxIndex == 2

ZigOldEntry(v) ==
    [version |-> v, bins |-> <<"zig">>,
     platforms |-> ("linux-amd64" :>
        [type |-> "tar.xz", url |-> ZigTarball(v, "x86_64-linux"), checksum |-> "sha256:" \o HexC])]

InitZig ==
    /\ NodeIdle /\ DlIdle /\ CfgIdle
    /\ zigData \in {d \in SeqsUpTo(ZigIndexPool, MaxIndex) :
                        \A i, j \in 1..Len(d) : d[i].key = d[j].key => i = j}
    /\ zigPc = "collect"
    /\ allVersions = <<>>
    /\ zigPos = 1
    /\ zigNewVersions = <<>>
    /\ zigYaml \in {<<>>, <<ZigOldEntry("0.15.2")>>}
    /\ allowDownloadChecksum = FALSE
    /\ existing = <<>>
    /\ disk = NoFile
    /\ releases = <<>>
    /\ relIdx = 1
    /\ pc = "done"
    /\ Idle
    /\ newVersions = <<>>
    /\ mergedVersions = <<>>
    /\ writes = 0
    /\ log = <<>>

NextZig ==
    \/ ZigCollect
    \/ ZigProcessVersion
    \/ ZigMergeAndWrite

SpecZig == InitZig /\ [][NextZig]_vars

-----------------------------------------------------------------------------
(* The version gate of both scripts on any tag *)

TagPrefixes == {"", "v", "V"}

TagCores == {"1.2.3", "2.0.0", "1.2", "1.25rc3", "1.25"}

TagSuffixes ==
    {"", "-rc.1", "-rc1", "-dev.5", "-dev", "+dev.1", "-rc.1+dev", "-rc.1-dev", "-rc-1.2",
     "-rc+build.1", "+build-1.2", "-beta.2+build", ".4"}

TagPool == {p \o c \o x : p \in TagPrefixes, c \in TagCores, x \in TagSuffixes}

\* an entry of dist/index.json with its SHASUMS256.txt
NodeRelease(ver) ==
    [version |-> ver, files |-> <<"src", "linux-x64", "win-x64-zip">>,
     shasums |-> HexA \o "  node-v" \o stripV(ver) \o "-linux-x64.tar.gz\n"
                 \o HexB \o "  node-v" \o stripV(ver) \o "-win-x64.zip\n"]

\* one release with the tag, and an asset that resolves, for each script
InitGate ==
    /\ ZigIdle /\ DlIdle /\ CfgIdle
    /\ allowDownloadChecksum = FALSE
    /\ existing = <<>>
    /\ disk = NoFile
    /\ \E tag \in TagPool :
          /\ releases = <<Release(tag, <<Asset("a-win64.zip", "sha256:" \o HexA, "binary", HexC)>>)>>
          /\ nodeReleases = <<NodeRelease(tag)>>
    /\ nodePc = "loop"
    /\ nodePos = 1
    /\ nodeNewVersions = <<>>
    /\ nodeYaml = <<>>
    /\ relIdx = 1
    /\ pc = "main"
    /\ Idle
    /\ newVersions = <<>>
    /\ mergedVersions = <<>>
    /\ writes = 0
    /\ log = <<>>

NextGate ==
    \/ ProcessReleaseSkip
    \/ ProcessReleaseCollect
    \/ SortCandidates
    \/ TryCandidate
    \/ ReturnVersionEntry
    \/ MergeAndWrite
    \/ NodeProcessRelease
    \/ NodeMergeAndWrite

SpecGate == InitGate /\ [][NextGate]_vars

-----------------------------------------------------------------------------
(* processRelease on a release with one asset of any name *)

NamePrefixes == {"app", "win32kit"}

OsTokens ==
    {"", "darwin", "Darwin", "macos", "mac-os", "osx", "os-x", "windows", "win", "win32", "win64",
     "linux", "ubuntu", "debian", "alpine"}

ArchTokens == {"", "arm64", "aarch64", "armv8", "x86_64", "x64", "amd64", "i386", "x86", "32bit"}

Extensions == {".tar.gz", ".tar.xz", ".txz", ".zip", ".msi"}

FilenamePool ==
    {p \o "-" \o o \o "-" \o a \o x :
        p \in NamePrefixes, o \in OsTokens, a \in ArchTokens, x \in Extensions}

InitClassify ==
    /\ NodeIdle /\ ZigIdle /\ DlIdle /\ CfgIdle
    /\ allowDownloadChecksum = FALSE
    /\ existing = <<>>
    /\ disk = NoFile
    /\ releases \in {<<Release("v2.0.0", <<Asset(name, "sha256:" \o HexA, "binary", HexC)>>)>> :
                        name \in FilenamePool}
    /\ relIdx = 1
    /\ pc = "main"
    /\ Idle
    /\ newVersions = <<>>
    /\ mergedVersions = <<>>
    /\ writes = 0
    /\ log = <<>>

NextClassify ==
    \/ ProcessReleaseCollect
    \/ SortCandidates
    \/ TryCandidate
    \/ ReturnVersionEntry
    \/ MergeAndWrite

SpecClassify == InitClassify /\ [][NextClassify]_vars

-----------------------------------------------------------------------------
(* getChecksum on an archive without digest and one checksum file *)

Target == "a-linux.tar.gz"

ChecksumFileNames ==
    {"SHA256SUMS", "sha256sums", "checksums.txt", "Checksums.txt", "checksums.sha256",
     "a-linux.tar.gz.sha256", "a-linux.tar.gz.sha256sum", "a-linux.sha256", "a-linux.sha256sum",
     "notes.txt"}

\* a line of a checksum file
Line(digest, name) == digest \o "  " \o name \o "\n"

Sha512 == Repeat("e5", 64)

\* contents of a checksum file: the line of the target with and without final
\* newline, a bare digest with and without newline and padding, a sha512 and a
\* short digest, the target's line after another file's and after the line of
\* its signature, and before it, a file without the target, and a failed request
ChecksumBodies ==
    { Line(HexB, Target),
      HexB \o "  " \o Target,
      HexB,
      HexB \o "\n",
      " " \o HexB \o " ",
      Line(Sha512, Target),
      Line("abc123", Target),
      Line(HexA, "other.zip") \o Line(HexB, Target),
      Line(HexA, Target \o ".sig") \o Line(HexB, Target),
      Line(HexB, Target) \o Line(HexA, Target \o ".sig"),
      Line(HexA, "other.zip"),
      Rejected }

InitFiles ==
    /\ NodeIdle /\ ZigIdle /\ DlIdle /\ CfgIdle
    /\ allowDownloadChecksum \in BOOLEAN
    /\ existing = <<>>
    /\ disk = NoFile
    /\ \E name \in ChecksumFileNames, body \in ChecksumBodies :
          LET archive == Asset(Target, Null, "binary", HexC)
              sums == Asset(name, Null, body, Rejected)
          IN releases \in {<<Release("v2.0.0", <<archive, sums>>)>>,
                           <<Release("v2.0.0", <<sums, archive>>)>>}
    /\ relIdx = 1
    /\ pc = "main"
    /\ Idle
    /\ newVersions = <<>>
    /\ mergedVersions = <<>>
    /\ writes = 0
    /\ log = <<>>

SpecFiles == InitFiles /\ [][NextClassify]_vars

-----------------------------------------------------------------------------
(* One release's files in two orders *)

\* files of one release: two archives of one platform with the same priority,
\* one of another type, one of another platform, and two checksum files whose
\* names differ in case only and that list different digests for the same file
OrderPool ==
    { Asset("a-linux.tar.gz", Null, "binary", HexC),
      Asset("b-linux.tar.gz", "sha256:" \o HexB, "binary", HexC),
      Asset("a-linux.zip", "sha256:" \o HexA, "binary", HexC),
      Asset("a-win64.zip", "sha256:" \o HexA, "binary", HexC),
      Asset("checksums.txt", Null, Line(HexA, "a-linux.tar.gz"), Rejected),
      Asset("Checksums.txt", Null, Line(HexB, "a-linux.tar.gz"), Rejected) }

FilesPerRelease == 3

\* the orders in which the API can list the files of a set
Orderings(files) ==
    {s \in [1..Cardinality(files) -> files] :
        \A i, j \in 1..Cardinality(files) : i # j => s[i] # s[j]}

\* the same files under two tags: in one order, and in every order
InitOrder ==
    /\ NodeIdle /\ ZigIdle /\ DlIdle /\ CfgIdle
    /\ allowDownloadChecksum \in BOOLEAN
    /\ existing = <<>>
    /\ disk = NoFile
    /\ \E files \in {f \in SUBSET OrderPool : Cardinality(f) = FilesPerRelease} :
          releases \in {<<Release("v2.0.0", CHOOSE o1 \in Orderings(files) : TRUE),
                           Release("v2.1.0", o2)>> : o2 \in Orderings(files)}
    /\ relIdx = 1
    /\ pc = "main"
    /\ Idle
    /\ newVersions = <<>>
    /\ mergedVersions = <<>>
    /\ writes = 0
    /\ log = <<>>

SpecOrder == InitOrder /\ [][NextClassify]_vars

-----------------------------------------------------------------------------
(* The run over releases that fail in one way each *)

\* a release with a rejected version, one without a classifiable file, one
\* whose checksum no tier resolves, one whose checksum file cannot be
\* fetched, one whose download answers with a redirect that is no absolute
\* URL, and one that resolves
FailingReleases ==
    { Release("1.25rc3", <<Asset("a-win64.zip", "sha256:" \o HexA, "binary", HexC)>>),
      Release("v2.0.0", <<Asset("notes.tar.gz", "sha256:" \o HexA, "binary", HexC),
                          Asset("a-linux.deb", "sha256:" \o HexA, "binary", HexC)>>),
      Release("v2.1.0", <<Asset("a-linux.tar.gz", Null, "binary", Rejected)>>),
      Release("v2.2.0", <<Asset("a-linux.tar.gz", Null, "binary", HexC),
                          Asset("a-linux.tar.gz.sha256", Null, Rejected, Rejected)>>),
      Release("v2.3.0", <<Asset("a-linux.tar.gz", Null, "binary", Uncaught)>>),
      Release("v3.0.0", <<Asset("a-win64.zip", "sha256:" \o HexA, "binary", HexC)>>) }

InitFailures ==
    /\ NodeIdle /\ ZigIdle /\ DlIdle /\ CfgIdle
    /\ allowDownloadChecksum \in BOOLEAN
    /\ existing \in {<<>>, <<OldEntry("1.0.0")>>}
    /\ disk \in {File(existing)} \cup (IF existing = <<>> THEN {NoFile} ELSE {})
    /\ releases \in {<<r1, r2>> : r1 \in FailingReleases, r2 \in FailingReleases}
    /\ relIdx = 1
    /\ pc = "main"
    /\ Idle
    /\ newVersions = <<>>
    /\ mergedVersions = <<>>
    /\ writes = 0
    /\ log = <<>>

SpecFailures == InitFailures /\ [][Next]_vars

-----------------------------------------------------------------------------
(* calculateChecksum: one download with its redirects *)

\* github-package.js main is not run
MainIdle ==
    /\ allowDownloadChecksum = TRUE
    /\ existing = <<>>
    /\ disk = NoFile
    /\ releases = <<>>
    /\ relIdx = 1
    /\ pc = "done"
    /\ Idle
    /\ newVersions = <<>>
    /\ mergedVersions = <<>>
    /\ writes = 0
    /\ log = <<>>

\* calculateChecksum(url, maxRedirects = 5)
maxRedirects == 5

SchemeChars == CharsOf(LowerLetters \o UpperLetters \o "0123456789+-.")

\* new URL(currentUrl) throws: without a base, a string with no scheme is no URL
newURLThrows(input) ==
    LET colon == IndexOf(input, ":")
    IN ~ /\ colon > 1
         /\ CharAt(input, 1) \in CharsOf(LowerLetters \o UpperLetters)
         /\ \A k \in 1..(colon - 1) : CharAt(input, k) \in SchemeChars

\* what a request ends with: a response, an 'error' event, or the timeout
Response(statusCode, location) == [event |-> "response", statusCode |-> statusCode, location |-> location]

RequestError == [event |-> "error", statusCode |-> 0, location |-> Null]

RequestTimeout == [event |-> "timeout", statusCode |-> 0, location |-> Null]

\* redirects to an absolute URL, and to a path of the same host
AbsoluteLocation == "https://objects.example.com/a-linux.tar.gz"

RelativeLocation == "/download/a-linux.tar.gz"

\* how a chain of redirects ends
LastResponses ==
    { Response(200, Null), Response(404, Null), Response(500, Null), Response(304, Null),
      Response(302, RelativeLocation), RequestError, RequestTimeout }

\* the longest chain of redirects a server answers with; longer than the code follows
MaxChain == 7

\* n redirects to absolute URLs, then the last answer
RedirectChain(n, last) == [i \in 1..(n + 1) |-> IF i <= n THEN Response(302, AbsoluteLocation) ELSE last]

InitDownload ==
    /\ NodeIdle /\ ZigIdle /\ CfgIdle /\ MainIdle
    /\ responses \in {RedirectChain(n, last) : n \in 0..MaxChain, last \in LastResponses}
    /\ currentUrl = Url("v2.0.0", "a-linux.tar.gz")
    /\ redirectCount = 0
    /\ requests = 0
    /\ dlPc = "makeRequest"
    /\ dlResult = Null

\* the frame of the steps of calculateChecksum
DownloadFrame ==
    UNCHANGED <<nodeVars, zigVars, cfgVars, allowDownloadChecksum, existing, releases, relIdx, pc,
                version, platformOrder, platformAssets, platIdx, candidates, candIdx, selected,
                platforms, newVersions, mergedVersions, disk, writes, log, responses>>

\* makeRequest up to req.end(): too many redirects reject; new URL throws, into
\* the promise when called from the executor and into the response event when
\* called from the callback; else the request is sent
MakeRequest ==
    /\ dlPc = "makeRequest"
    /\ IF redirectCount > maxRedirects
       THEN dlPc' = "rejected" /\ UNCHANGED requests
       ELSE IF newURLThrows(currentUrl)
       THEN dlPc' = (IF redirectCount = 0 THEN "rejected" ELSE "uncaught") /\ UNCHANGED requests
       ELSE dlPc' = "request" /\ requests' = requests + 1
    /\ UNCHANGED <<currentUrl, redirectCount, dlResult>>
    /\ DownloadFrame

\* the response callback
OnResponse ==
    /\ dlPc = "request"
    /\ responses[requests].event = "response"
    /\ LET res == responses[requests]
       IN IF res.statusCode >= 300 /\ res.statusCode < 400 /\ Truthy(res.location)
          THEN /\ currentUrl' = res.location
               /\ redirectCount' = redirectCount + 1
               /\ dlPc' = "makeRequest"
          ELSE /\ dlPc' = (IF res.statusCode # 200 THEN "rejected" ELSE "resolved")
               /\ UNCHANGED <<currentUrl, redirectCount>>
    /\ UNCHANGED <<requests, dlResult>>
    /\ DownloadFrame

\* req.on('error')
OnError ==
    /\ dlPc = "request"
    /\ responses[requests].event = "error"
    /\ dlPc' = "rejected"
    /\ UNCHANGED <<currentUrl, redirectCount, requests, dlResult>>
    /\ DownloadFrame

\* req.setTimeout(60000, ...)
OnTimeout ==
    /\ dlPc = "request"
    /\ responses[requests].event = "timeout"
    /\ dlPc' = "rejected"
    /\ UNCHANGED <<currentUrl, redirectCount, requests, dlResult>>
    /\ DownloadFrame

\* getChecksum: await calculateChecksum(...) in its try/catch
AwaitChecksum ==
    /\ dlPc \in {"resolved", "rejected"}
    /\ dlResult' = (IF dlPc = "resolved" THEN HexC ELSE Null)
    /\ dlPc' = "returned"
    /\ UNCHANGED <<currentUrl, redirectCount, requests>>
    /\ DownloadFrame

NextDownload ==
    \/ MakeRequest
    \/ OnResponse
    \/ OnError
    \/ OnTimeout
    \/ AwaitChecksum

SpecDownload == InitDownload /\ [][NextDownload]_vars

-----------------------------------------------------------------------------
(* parseArgs: command line and config file *)

\* let config = { owner: null, ..., allowDownloadChecksum: false }
DefaultConfig ==
    [owner |-> Null, repo |-> Null, packageName |-> Null, bins |-> <<>>,
     description |-> Null, homepage |-> Null, license |-> Null,
     githubToken |-> Null, allowDownloadChecksum |-> FALSE]

\* { ...a, ...b }: the keys of both, with b's value where both have the key
Spread(a, b) == [k \in DOMAIN a \cup DOMAIN b |-> IF k \in DOMAIN b THEN b[k] ELSE a[k]]

\* { ...configData, ...config }
mergeConfig(configData, cli) == Spread(configData, cli)

\* the options of a command line: Null and <<>> where the option is not given
Options(owner, repo, packageName, bins, allow, withFile) ==
    [owner |-> owner, repo |-> repo, packageName |-> packageName, bins |-> bins,
     allowDownloadChecksum |-> allow, config |-> withFile]

CommandLines ==
    { Options(o, r, p, b, a, f) :
        o \in {Null, "cli-owner"}, r \in {Null, "cli-repo"}, p \in {Null, "cli-name"},
        b \in {<<>>, <<[name |-> "cli-bin", path |-> "bin/cli"]>>},
        a \in BOOLEAN, f \in BOOLEAN }

\* the file named by --config: unreadable, or the object JSON.parse returns
ConfigFile(readable, data) == [readable |-> readable, data |-> data]

ConfigFiles ==
    { ConfigFile(FALSE, <<>>),
      ConfigFile(TRUE, [owner |-> "file-owner", repo |-> "file-repo", packageName |-> "file-name",
                        bins |-> <<[name |-> "file-bin", path |-> "bin/file"]>>]),
      ConfigFile(TRUE, [owner |-> "file-owner", repo |-> "file-repo", packageName |-> "file-name",
                        bins |-> <<[name |-> "file-bin", path |-> "bin/file"]>>,
                        description |-> "from the file", allowDownloadChecksum |-> TRUE]),
      ConfigFile(TRUE, [owner |-> "file-owner", repo |-> "file-repo"]),
      ConfigFile(TRUE, [description |-> "from the file"]) }

InitConfig ==
    /\ NodeIdle /\ ZigIdle /\ DlIdle /\ MainIdle
    /\ argv \in CommandLines
    /\ configFile \in ConfigFiles
    /\ config = DefaultConfig
    /\ cfgPc = "options"

ConfigFrame ==
    UNCHANGED <<nodeVars, zigVars, dlVars, allowDownloadChecksum, existing, releases, relIdx, pc,
                version, platformOrder, platformAssets, platIdx, candidates, candIdx, selected,
                platforms, newVersions, mergedVersions, disk, writes, log, argv, configFile>>

\* the loop over args
ReadOptions ==
    /\ cfgPc = "options"
    /\ config' = [config EXCEPT
                    !.owner = IF argv.owner # Null THEN argv.owner ELSE @,
                    !.repo = IF argv.repo # Null THEN argv.repo ELSE @,
                    !.packageName = IF argv.packageName # Null THEN argv.packageName ELSE @,
                    !.bins = IF argv.bins # <<>> THEN argv.bins ELSE @,
                    !.allowDownloadChecksum = IF argv.allowDownloadChecksum THEN TRUE ELSE @]
    /\ cfgPc' = "file"
    /\ ConfigFrame

\* if (configFile) { ... }
LoadConfigFile ==
    /\ cfgPc = "file"
    /\ IF ~argv.config
       THEN cfgPc' = "validate" /\ UNCHANGED config
       ELSE IF ~configFile.readable
       THEN cfgPc' = "exit1" /\ UNCHANGED config
       ELSE cfgPc' = "validate" /\ config' = mergeConfig(configFile.data, config)
    /\ ConfigFrame

\* the validation of the required fields
missingRequired(c) ==
    ~Truthy(c.owner) \/ ~Truthy(c.repo) \/ ~Truthy(c.packageName) \/ Len(c.bins) = 0

ValidateConfig ==
    /\ cfgPc = "validate"
    /\ cfgPc' = (IF missingRequired(config) THEN "exit1" ELSE "parsed")
    /\ UNCHANGED config
    /\ ConfigFrame

NextConfig ==
    \/ ReadOptions
    \/ LoadConfigFile
    \/ ValidateConfig

SpecConfig == InitConfig /\ [][NextConfig]_vars

-----------------------------------------------------------------------------
(* What the claims speak of *)

Range(seq) == {seq[i] : i \in 1..Len(seq)}

\* the code points of the characters of file names, in ascending order
AsciiOrder == "+-.0123456789ABCDEFGHIJKLMNOPQRSTUVWXYZ_abcdefghijklmnopqrstuvwxyz"

RECURSIVE NameLess(_, _)
NameLess(a, b) ==
    IF b = "" THEN FALSE
    ELSE IF a = "" THEN TRUE
    ELSE IF CharAt(a, 1) # CharAt(b, 1)
    THEN IndexOf(AsciiOrder, CharAt(a, 1)) < IndexOf(AsciiOrder, CharAt(b, 1))
    ELSE NameLess(Substring(a, 1), Substring(b, 1))

\* the priority table: zip alone on Windows; tar.gz, tar.xz, tar, zip elsewhere
PriorityRank(archiveType, os) ==
    IF os = "windows" THEN (IF archiveType = "zip" THEN 1 ELSE 999)
    ELSE CASE archiveType = "tar.gz" -> 1
           [] archiveType = "tar.xz" -> 2
           [] archiveType = "tar" -> 3
           [] archiveType = "zip" -> 4
           [] OTHER -> 999

\* a ranks before b among the candidates of a platform
RanksBefore(a, b, os) ==
    LET pa == PriorityRank(detectArchiveType(a.name), os)
        pb == PriorityRank(detectArchiveType(b.name), os)
    IN pa < pb \/ (pa = pb /\ NameLess(a.name, b.name))

\* the assets of the current release that are candidates of platform p
CandidatesFor(p) ==
    {a \in Range(release.assets) : matchPlatform(a.name) = p /\ detectArchiveType(a.name) # Null}

ResolvedChecksum(a) == getChecksum(a, release.assets, allowDownloadChecksum).checksum

Resolving(p) == {a \in CandidatesFor(p) : Truthy(ResolvedChecksum(a))}

ArtifactOf(a) ==
    [type |-> detectArchiveType(a.name), url |-> Url(release.tag_name, a.name),
     checksum |-> "sha256:" \o ResolvedChecksum(a)]

\* the platforms of the current release whose loop has ended
DonePlatforms == {platformOrder[k] : k \in 1..Min(platIdx - 1, Len(platformOrder))}

InRelease == pc \in {"platform", "candidate"}

ReleaseDone == pc = "platform" /\ platIdx > Len(platformOrder)

\* every artifact selected so far in the run
ArtifactsOfRun ==
    {platforms[p] : p \in DOMAIN platforms}
    \cup UNION {{newVersions[i].platforms[p] : p \in DOMAIN newVersions[i].platforms} :
                    i \in 1..Len(newVersions)}
    \cup (IF selected # NoArtifact THEN {selected} ELSE {})

AssetOfEntry(e) == CHOOSE a \in Range(releases[e.rel].assets) : a.name = e.asset

\* a digest the API supplied: sha256: and a non-empty hash
HasProvidedDigest(a) ==
    a.digest # Null /\ startsWith(a.digest, "sha256:") /\ Len(a.digest) > Len("sha256:")

SameProbe(e, f) == e.rel = f.rel /\ e.platform = f.platform /\ e.asset = f.asset

-----------------------------------------------------------------------------
(* Claims *)

WellFormedChecksum(c) ==
    /\ Len(c) = 7 + 64
    /\ startsWith(c, "sha256:")
    /\ \A i \in 8..71 : IsLowerHexChar(CharAt(c, i))

\* C2: every checksum of an artifact the run selects is sha256: followed by
\* exactly 64 lower-case hexadecimal characters.
C2_ChecksumsWellFormed == \A art \in ArtifactsOfRun : WellFormedChecksum(art.checksum)

\* C3: a fetch of a checksum file or a download is made for an asset only when
\* the asset has no provided digest and tier 1 returned nothing; a download
\* directly follows the return of tier 2, and tier 2 returned nothing.
C3_TiersInOrder ==
    \A i \in 1..Len(log) :
        /\ log[i].op \in {"fetch", "files", "download"} =>
              /\ ~HasProvidedDigest(AssetOfEntry(log[i]))
              /\ i > 1 /\ SameProbe(log[i - 1], log[i])
              /\ \E j \in 1..(i - 1) :
                    /\ log[j].op = "api" /\ SameProbe(log[j], log[i]) /\ ~Truthy(log[j].arg)
                    /\ \A k \in (j + 1)..(i - 1) : log[k].op # "api"
        /\ log[i].op = "fetch" => log[i - 1].op \in {"api", "fetch"}
        /\ log[i].op = "files" => log[i - 1].op \in {"api", "fetch"}
        /\ log[i].op = "download" => log[i - 1].op = "files" /\ ~Truthy(log[i - 1].arg)

\* C3 witness: one asset was answered by its API digest, and another was
\* downloaded after a checksum file had been fetched for it in vain.
C3_Witness ==
    /\ \E i \in 1..Len(log) : log[i].op = "api" /\ Truthy(log[i].arg)
    /\ \E i \in 3..Len(log) :
          log[i].op = "download" /\ log[i - 1].op = "files" /\ log[i - 2].op = "fetch"

\* C4: with allowDownloadChecksum unset no download is ever started, and an
\* asset that tiers 1 and 2 gave no checksum is not a selected artifact.
C4_DownloadOnlyOptIn ==
    ~allowDownloadChecksum =>
        \A i \in 1..Len(log) :
            /\ log[i].op # "download"
            /\ (log[i].op = "files" /\ ~Truthy(log[i].arg)) =>
                  \A art \in ArtifactsOfRun :
                      art.url # Url(releases[log[i].rel].tag_name, log[i].asset)

\* C4 witness: the flag is unset, the run has ended, and an asset whose
\* download would have given a digest got nothing from tiers 1 and 2.
C4_Witness ==
    /\ ~allowDownloadChecksum
    /\ pc = "done"
    /\ \E i \in 1..Len(log) :
          log[i].op = "files" /\ ~Truthy(log[i].arg) /\ AssetOfEntry(log[i]).sha # Rejected

\* C5: after a call of one platform's selection has returned a checksum, no
\* further call is made for that platform of that release.
C5_NoProbeAfterSuccess ==
    \A i \in 1..Len(log) :
        (log[i].op \in {"api", "files", "download"} /\ Truthy(log[i].arg)) =>
            \A j \in (i + 1)..Len(log) :
                ~(log[j].rel = log[i].rel /\ log[j].platform = log[i].platform)

\* C5 witness: a platform with two candidates got its artifact from the
\* first, and the selection of that platform has ended.
C5_Witness ==
    /\ InRelease
    /\ \E p \in DonePlatforms :
          /\ Cardinality(CandidatesFor(p)) >= 2
          /\ p \in DOMAIN platforms
          /\ Cardinality({log[i].asset : i \in {j \in 1..Len(log) : log[j].platform = p}}) = 1

\* C6: a Windows platform gets an artifact that is not a zip only if that
\* artifact's asset is the platform's sole candidate.
C6_SentinelOnlyIfSole ==
    InRelease =>
        \A p \in DonePlatforms \cap DOMAIN platforms :
            (PlatformOS(p) = "windows" /\ platforms[p].type # "zip") =>
                Cardinality(CandidatesFor(p)) = 1

ArchiveTypes == {"tar", "tar.gz", "tar.xz", "zip"}

InstallerExtensions == {".msi", ".exe", ".deb", ".rpm", ".dmg", ".pkg", ".appimage", ".snap"}

\* the last n characters of s
LastChars(s, n) == IF Len(s) <= n THEN s ELSE SubSeq(s, Len(s) - n + 1, Len(s))

IsInstaller(name) ==
    LET tail == toLowerCase(LastChars(name, Len(".appimage")))
    IN \E ext \in InstallerExtensions : endsWith(tail, ext)

C8_UnresolvedPlatformOmitted ==
    ReleaseDone =>
        \A p \in Range(platformOrder) :
            LET resolving == Resolving(p)
            IN IF resolving = {} THEN p \notin DOMAIN platforms
               ELSE /\ p \in DOMAIN platforms
                    /\ \E a \in resolving :
                          /\ platforms[p] = ArtifactOf(a)
                          /\ \A b \in resolving \ {a} : RanksBefore(a, b, PlatformOS(p))

\* C8 witness: a release with two platforms, one without any resolving
\* candidate and left out, the other with its artifact.
C8_Witness ==
    /\ ReleaseDone
    /\ \E p, q \in Range(platformOrder) :
          /\ p # q
          /\ Resolving(p) = {} /\ p \notin DOMAIN platforms
          /\ q \in DOMAIN platforms

VersionsOf(list) == {list[i].version : i \in 1..Len(list)}

\* C9 as stated: in the result of a merge every version string occurs once, a
\* version of both inputs has the entry of the new list, and every version
\* string of either input occurs.
C9_EveryVersionKept ==
    pc = "merged" =>
        /\ \A i, j \in 1..Len(mergedVersions) :
              mergedVersions[i].version = mergedVersions[j].version => i = j
        /\ \A e \in Range(mergedVersions) :
              e.version \in VersionsOf(newVersions) => e \in Range(newVersions)
        /\ VersionsOf(existing) \cup VersionsOf(newVersions) \subseteq VersionsOf(mergedVersions)

\* C9 amended: in the result of a merge every version string occurs once, a
\* version of both inputs has the entry of the new list, every entry is one of
\* an input, and every non-empty version string of either input occurs.
C9_MergeDedupNewWins ==
    pc = "merged" =>
        /\ \A i, j \in 1..Len(mergedVersions) :
              mergedVersions[i].version = mergedVersions[j].version => i = j
        /\ \A e \in Range(mergedVersions) :
              /\ e \in Range(existing) \cup Range(newVersions)
              /\ e.version \in VersionsOf(newVersions) => e \in Range(newVersions)
        /\ VersionsOf(mergedVersions) =
              (VersionsOf(existing) \cup VersionsOf(newVersions)) \ {""}

\* C9 witness: a merge of two lists that share a version string.
C9_Witness ==
    /\ pc = "merged"
    /\ VersionsOf(existing) \cap VersionsOf(newVersions) # {}
    /\ Len(mergedVersions) >= 2

\* ka is higher than kb: greater at the first component where they differ
KeyHigher(ka, kb) ==
    \E i \in 1..Max(Len(ka), Len(kb)) :
        /\ KeyAt(ka, i) > KeyAt(kb, i)
        /\ \A j \in 1..(i - 1) : KeyAt(ka, j) = KeyAt(kb, j)

\* C10: after a merge each entry ranks strictly higher than the entry after it.
C10_StrictlyDescending ==
    pc = "merged" =>
        \A i \in 1..(Len(mergedVersions) - 1) :
            KeyHigher(versionKey(mergedVersions[i].version), versionKey(mergedVersions[i + 1].version))

UniqueVersions(list) == \A i, j \in 1..Len(list) : list[i].version = list[j].version => i = j

\* C11 as stated: the merge of a catalog of unique version strings with its own
\* entries holds exactly the entries of the catalog, and a second merge of a
\* result with the same new entries returns that result.
C11_MergeIdempotent ==
    /\ (pc = "merged" /\ newVersions = existing /\ UniqueVersions(existing)) =>
          /\ Len(mergedVersions) = Len(existing)
          /\ Range(mergedVersions) = Range(existing)
    /\ pc = "remerged" => mergedVersions = existing

\* C11 amended: the same for a catalog of unique version strings none of which
\* is empty.
C11_MergeIdempotentNonEmpty ==
    /\ (pc = "merged" /\ newVersions = existing /\ UniqueVersions(existing)
            /\ "" \notin VersionsOf(existing)) =>
          /\ Len(mergedVersions) = Len(existing)
          /\ Range(mergedVersions) = Range(existing)
    /\ pc = "remerged" => mergedVersions = existing

\* C11 witness: a catalog of two entries merged with its own entries, twice.
C11_Witness ==
    /\ pc = "remerged"
    /\ Len(mergedVersions) >= 2
    /\ Range(newVersions) = Range(mergedVersions)
    /\ \A e \in Range(newVersions) : e = OldEntry(e.version)

AllDigits(t) == t # "" /\ \A i \in 1..Len(t) : IsDigit(CharAt(t, i))

\* the tag without one leading version-prefix letter
StrippedTag(tag) == IF CharAt(tag, 1) \in {"v", "V"} THEN Substring(tag, 1) ELSE tag

\* r begins with three dot-separated non-negative integers
BeginsWithTriple(r) ==
    LET parts == split(r, ".")
    IN Len(parts) >= 3 /\ AllDigits(parts[1]) /\ AllDigits(parts[2]) /\ IsDigit(CharAt(parts[3], 1))

\* the pre-release suffix: the text after the first "-", without build metadata
PreReleaseSuffix(r) ==
    LET after == Substring(r, IndexOf(r, "-"))
    IN IF IndexOf(after, "+") = 0 THEN after ELSE SubSeq(after, 1, IndexOf(after, "+") - 1)

HasDevMarker(r) == includes(r, "-dev") \/ includes(r, "+dev")

GateShouldAccept(tag) ==
    /\ BeginsWithTriple(StrippedTag(tag))
    /\ includes(StrippedTag(tag), "-") => includes(PreReleaseSuffix(StrippedTag(tag)), ".")
    /\ ~HasDevMarker(StrippedTag(tag))

\* C12: a release whose asset resolves gets a version entry exactly when its tag,
\* stripped of one leading v, begins with MAJOR.MINOR.PATCH, has a dot in the
\* text after a "-" if there is one, and has no -dev/+dev marker; the entry's
\* version is the stripped tag. The same for the Node.js script.
C12_GateAcceptsExactly ==
    /\ pc \in {"platform", "candidate"} =>
          GateShouldAccept(releases[1].tag_name) /\ version = StrippedTag(releases[1].tag_name)
    /\ relIdx > 1 =>
          /\ newVersions # <<>> <=> GateShouldAccept(releases[1].tag_name)
          /\ newVersions # <<>> => newVersions[1].version = StrippedTag(releases[1].tag_name)
    /\ nodePos > 1 =>
          /\ nodeNewVersions # <<>> <=> GateShouldAccept(nodeReleases[1].version)
          /\ nodeNewVersions # <<>> =>
                nodeNewVersions[1].version = StrippedTag(nodeReleases[1].version)

\* C13: a release whose version has a -dev or +dev marker is never processed
\* and no entry for it is in the new versions or the catalog file of the
\* GitHub script or of the Node.js script.
C13_DevNeverCataloged ==
    HasDevMarker(releases[1].tag_name) =>
        /\ pc \notin {"platform", "candidate"}
        /\ newVersions = <<>> /\ mergedVersions = <<>> /\ disk = NoFile
        /\ nodeNewVersions = <<>> /\ nodeYaml = <<>>

\* C13 witness: both scripts have finished over a release whose pre-release
\* suffix has a dot and whose build metadata has the marker.
C13_Witness ==
    /\ pc = "done" /\ nodePc = "done"
    /\ includes(releases[1].tag_name, "+dev")
    /\ includes(PreReleaseSuffix(StrippedTag(releases[1].tag_name)), ".")
    /\ BeginsWithTriple(StrippedTag(releases[1].tag_name))

\* the index entries whose version string has the -dev marker
DevSnapshots ==
    {d \in Range(zigData) :
        \/ d.key = "master" /\ d.value.version # Null /\ includes(d.value.version, "-dev")
        \/ includes(d.key, "-dev")}

TarballsOf(d) == {d.value.entries[i].tarball : i \in 1..Len(d.value.entries)} \ {Null}

\* C14: no version entry of the Zig script, new or written to zig.yaml, has
\* the tarball of an index entry whose version string contains -dev.
C14_NoDevSnapshotCataloged ==
    \A e \in Range(zigNewVersions) \cup Range(zigYaml) :
        \A p \in DOMAIN e.platforms :
            \A d \in DevSnapshots : e.platforms[p].url \notin TarballsOf(d)

\* the name of the one asset of the release
AssetName == releases[1].assets[1].name

\* the assets of the release have been grouped by platform
Grouped == pc \in {"platform", "candidate"}

MacMarkers == {"darwin", "macos", "mac-os", "osx", "os-x"}

HasMacMarker(name) == \E m \in MacMarkers : includes(toLowerCase(name), m)

SupportedExtensions == {".tar.gz", ".tgz", ".tar.xz", ".zip", ".tar"}

HasSupportedExtension(name) == \E x \in SupportedExtensions : endsWith(toLowerCase(name), x)

\* C15: an asset whose name has a macOS marker is grouped under a macos
\* platform and never under a windows one, and so is its artifact.
C15_MacMarkerIsMacos ==
    HasMacMarker(AssetName) =>
        /\ Grouped =>
              /\ \A p \in Range(platformOrder) : PlatformOS(p) = "macos"
              /\ HasSupportedExtension(AssetName) => Len(platformOrder) = 1
        /\ \A e \in Range(newVersions) : \A p \in DOMAIN e.platforms : PlatformOS(p) = "macos"

\* C15 witness: a name with darwin and win32 in it, grouped under macos.
C15_Witness ==
    /\ pc = "candidate"
    /\ includes(AssetName, "darwin") /\ includes(AssetName, "win32")
    /\ PlatformOS(platformOrder[1]) = "macos"

RECURSIVE ReplaceAll(_, _, _)
ReplaceAll(str, from, to) ==
    IF Len(str) < Len(from) THEN str
    ELSE IF startsWith(str, from) THEN to \o ReplaceAll(Substring(str, Len(from)), from, to)
    ELSE CharAt(str, 1) \o ReplaceAll(Substring(str, 1), from, to)

Arm64Markers == {"arm64", "aarch64", "armv8"}

HasArm64Marker(name) == \E m \in Arm64Markers : includes(toLowerCase(name), m)

\* C16: an asset with a recognized OS whose name has arm64, aarch64 or armv8
\* is grouped under <os>-arm64, and the name with arm64 replaced by aarch64 has
\* the same platform key.
C16_Arm64Spellings ==
    (Grouped /\ HasArm64Marker(AssetName)) =>
        /\ \A p \in Range(platformOrder) :
              /\ endsWith(p, "-arm64")
              /\ matchPlatform(ReplaceAll(AssetName, "arm64", "aarch64")) = p
        /\ (matchOS(toLowerCase(AssetName)) # Null /\ HasSupportedExtension(AssetName)) =>
              Len(platformOrder) = 1

\* C16 witness: a name with win64 and arm64 in it, grouped under windows-arm64.
C16_Witness ==
    /\ pc = "candidate"
    /\ includes(AssetName, "win64") /\ includes(AssetName, "arm64")
    /\ platformOrder = <<"windows-arm64">>

\* C20: an asset with a recognized OS whose name ends in .txz is a candidate
\* of its platform with archive type tar.xz.
C20_TxzIsTarXz ==
    (Grouped /\ endsWith(toLowerCase(AssetName), ".txz") /\ matchOS(toLowerCase(AssetName)) # Null) =>
        /\ Len(platformOrder) = 1
        /\ \E c \in Range(platformAssets[platformOrder[1]]) :
              c.asset.name = AssetName /\ c.archiveType = "tar.xz"

\* the checksum file of the release
SumsFile == CHOOSE a \in Range(releases[1].assets) : a.name # Target

SumsLines == IF SumsFile.body = Rejected THEN <<>> ELSE split(SumsFile.body, "\n")

\* what tier 2 returned for the target, once it has been asked
FilesResults == {e.arg : e \in {f \in Range(log) : f.op = "files" /\ f.asset = Target}}

TargetTried == pc = "platform" /\ platIdx > 1

IsDigest(d) == Len(d) = HashLen /\ \A i \in 1..HashLen : IsHexChar(CharAt(d, i))

\* the digests of the lines "<64 hex>  <target>"
DigestsOfTarget ==
    {SubSeq(l, 1, HashLen) :
        l \in {m \in Range(SumsLines) :
                 /\ Len(m) = HashLen + 2 + Len(Target)
                 /\ endsWith(m, "  " \o Target)
                 /\ IsDigest(SubSeq(m, 1, HashLen))}}

ReleaseWideNames == {"SHA256SUMS", "checksums.txt", "checksums.sha256"}

\* C17: when the one sibling of a target without digest is named SHA256SUMS,
\* checksums.txt or checksums.sha256 and has the line "<64 hex>  <target>",
\* tier 2 returns that digest for the target.
C17_ReleaseWideFilesFound ==
    (TargetTried /\ SumsFile.name \in ReleaseWideNames /\ DigestsOfTarget # {}) =>
        FilesResults # {} /\ FilesResults \subseteq DigestsOfTarget

\* the length of the run of hexadecimal characters at the start of t
RECURSIVE HexRun(_, _)
HexRun(t, i) == IF i <= Len(t) /\ IsHexChar(CharAt(t, i)) THEN 1 + HexRun(t, i + 1) ELSE 0

\* C18: a digest that tier 2 returns is the whole hexadecimal string at the
\* start of a line of the checksum file, and that string has 64 characters.
C18_OnlyWholeDigests ==
    \A d \in FilesResults \ {Null} :
        \E k \in 1..Len(SumsLines) :
            /\ HexRun(trim(SumsLines[k]), 1) = HashLen
            /\ SubSeq(trim(SumsLines[k]), 1, HashLen) = d

PerFileNames ==
    {Target \o ".sha256", Target \o ".sha256sum", "a-linux.sha256", "a-linux.sha256sum"}

\* C19: when the per-file checksum sibling of the target holds one line, a
\* bare 64-hex digest, with or without a final newline, tier 2 returns it.
C19_BareDigestReturned ==
    (TargetTried /\ SumsFile.name \in PerFileNames /\ SumsFile.body # Rejected
        /\ \E d \in {HexA, HexB} : SumsFile.body \in {d, d \o "\n"}) =>
        FilesResults = {trim(SumsFile.body)}

\* C21: no failure of a release or of a candidate ends the run: the run is
\* never aborted, a failed fetch or download is a tier that returned nothing,
\* and a run that has ended has gone through every release and holds the
\* entry of every release that resolves.
C21_FailuresAbsorbed ==
    /\ pc # "aborted"
    /\ \A e \in Range(log) :
          (e.op = "download" /\ AssetOfEntry(e).sha \notin {HexA, HexB, HexC}) => e.arg = Null
    /\ pc = "done" =>
          /\ relIdx = Len(releases) + 1
          /\ \A i \in 1..Len(releases) :
                releases[i].tag_name = "v3.0.0" => "3.0.0" \in VersionsOf(newVersions)

\* C22: the catalog file changes at most once in a run, and only in the step
\* main takes after the loop over the releases has ended: until then the file
\* is the one the run found, also in a run that ends midway, and what is
\* written are prior entries and entries whose release has finished resolution.
C22_WrittenOnceAtEnd ==
    [][(disk' # disk \/ writes' # writes) =>
          /\ writes = 0 /\ writes' = 1
          /\ pc = "main" /\ pc' = "done"
          /\ relIdx = Len(releases) + 1
          /\ version = Null /\ platforms = NoEntries
          /\ disk' = File(mergedVersions')
          /\ Range(disk'.versions) \subseteq Range(existing) \cup Range(newVersions)]_vars

\* a run whose first release ended without an entry and whose second release
\* was resolved and written
C22_Witness ==
    /\ pc = "done"
    /\ writes = 1
    /\ Len(newVersions) = 1
    /\ releases[1].tag_name # releases[2].tag_name
    /\ disk = File(mergeVersions(existing, newVersions))
    /\ disk.versions # existing

\* what a run resolved for the release at position i: platform, archive type,
\* checksum and file name of every artifact of its entry
ResolvedOf(i) ==
    LET tag == releases[i].tag_name
        entries == {e \in Range(newVersions) : e.version = extractVersion(tag)}
    IN { <<p, e.platforms[p].type, e.platforms[p].checksum, a.name>> :
            <<e, p, a>> \in {t \in entries \X {"linux-amd64", "windows-amd64"} \X Range(releases[i].assets) :
                                /\ t[2] \in DOMAIN t[1].platforms
                                /\ t[1].platforms[t[2]].url = Url(tag, t[3].name)} }

\* C23: the artifacts resolved for a release do not depend on the order of its
\* file list: two releases with the same files, metadata and fetch results in
\* different orders end with the same platforms, types, checksums and files.
C23_OrderIndependent ==
    pc = "done" => ResolvedOf(1) = ResolvedOf(2)

\* C24: one computation of tier 3 issues at most 6 requests and follows at
\* most 5 redirects, never ends outside getChecksum's catch, and once it has
\* returned the result is the digest of a download that answered 200 and none
\* otherwise.
C24_RedirectsBounded ==
    /\ requests <= maxRedirects + 1
    /\ redirectCount <= maxRedirects + 1
    /\ dlPc # "uncaught"
    /\ dlPc = "returned" =>
          dlResult = (IF requests >= 1 /\ responses[requests] = Response(200, Null)
                      THEN HexC ELSE Null)

RequiredFields == {"owner", "repo", "packageName", "bins"}

\* the option is on the command line
GivenOnCommandLine(f) == IF f = "bins" THEN argv.bins # <<>> ELSE argv[f] # Null

\* the file is read and supplies owner, repo, packageName and a non-empty bins
FileSuppliesRequired ==
    /\ argv.config
    /\ configFile.readable
    /\ RequiredFields \subseteq DOMAIN configFile.data
    /\ Len(configFile.data.bins) > 0

\* C25: with --config and a file that supplies owner, repo, packageName and a
\* non-empty bins, parseArgs ends with the validation passed, and each of the
\* four is the command line's value where the command line gives one and the
\* file's value where it does not.
C25_ConfigFileUsed ==
    (cfgPc \in {"parsed", "exit1"} /\ FileSuppliesRequired) =>
        /\ cfgPc = "parsed"
        /\ \A f \in RequiredFields :
              config[f] = IF GivenOnCommandLine(f) THEN argv[f] ELSE configFile.data[f]

\* architecture markers other than 32bit, and win32, which may be one
OtherArchMarkers ==
    {"arm", "aarch", "amd64", "x86", "x64", "i386", "i486", "i586", "i686", "ia32",
     "386", "686", "64", "32-bit", "win32", "pentium"}

OnlyArchMarkerIs32bit(name) ==
    /\ includes(toLowerCase(name), "32bit")
    /\ \A m \in OtherArchMarkers : ~includes(toLowerCase(name), m)

\* C26: an asset with a recognized OS whose only architecture marker is 32bit
\* is grouped under <os>-x86.
C26_32bitIsX86 ==
    (Grouped /\ OnlyArchMarkerIs32bit(AssetName) /\ matchOS(toLowerCase(AssetName)) # Null
        /\ HasSupportedExtension(AssetName)) =>
        /\ Len(platformOrder) = 1
        /\ platformOrder[1] = matchOS(toLowerCase(AssetName)) \o "-x86"

DistributionNames == {"ubuntu", "debian", "fedora", "centos", "alpine"}

OtherOsMarkers == {"darwin", "mac", "osx", "os-x", "win", "linux"}

OnlyOsMarkerIsDistribution(name) ==
    /\ \E m \in DistributionNames : includes(toLowerCase(name), m)
    /\ \A m \in OtherOsMarkers : ~includes(toLowerCase(name), m)

\* C27: an asset whose only OS marker is the name of a Linux distribution is
\* grouped under a linux platform.
C27_DistributionIsLinux ==
    (Grouped /\ OnlyOsMarkerIsDistribution(AssetName) /\ HasSupportedExtension(AssetName)) =>
        /\ Len(platformOrder) = 1
        /\ PlatformOS(platformOrder[1]) = "linux"

\* the digests of the lines "<64 hex>  <name>" of another file whose name
\* contains the target's name
DigestsOfContainingNames ==
    {SubSeq(l, 1, HashLen) :
        l \in {m \in Range(SumsLines) :
                 /\ Len(m) > HashLen + 2
                 /\ IsDigest(SubSeq(m, 1, HashLen))
                 /\ SubSeq(m, HashLen + 1, HashLen + 2) = "  "
                 /\ SubSeq(m, HashLen + 3, Len(m)) # Target
                 /\ includes(SubSeq(m, HashLen + 3, Len(m)), Target)}}

\* C28: a digest that tier 2 returns for the target is never the digest of a
\* line for another file whose name contains the target's name, unless the
\* target's own line lists the same digest.
C28_DigestOfExactFile ==
    \A d \in FilesResults \ {Null} :
        d \in DigestsOfContainingNames => d \in DigestsOfTarget

\* the release at position i has the version of an entry of the prior catalog
AlreadyCataloged(i) == extractVersion(releases[i].tag_name) \in VersionsOf(existing)

C30_NoEntryNoWrite ==
    [][/\ newVersions' = <<>> => (disk' = disk /\ writes' = writes)
       /\ newVersions' # newVersions =>
             /\ DOMAIN platforms # {}
             /\ newVersions' = Append(newVersions, VersionEntry)]_vars

\* a run over two releases, one of them probed without a resolved platform,
\* ended without an entry and without a write, the file still missing or
\* unreadable
C30_Witness ==
    /\ pc = "done"
    /\ newVersions = <<>>
    /\ log # <<>>
    /\ writes = 0
    /\ disk \in {NoFile, UnreadableFile}

====
